---- MODULE Spec2Model ----
(***************************************************************************)
(* A model of the json-matcher crate: the JSON value model it consumes,    *)
(* the path/error records of src/error.rs, the primitive matchers, and the *)
(* recursive array and object matchers of src/matchers.                    *)
(*                                                                         *)
(* json_matches is a pure function of (matcher, candidate).  It is modelled*)
(* by operators that compute what the code computes; the state machine     *)
(* draws a (matcher, candidate) pair from bounded input families and       *)
(* applies json_matches to it once (Spec), again and again (SpecRepeat),   *)
(* or from several threads sharing the tree (SpecShared).                  *)
(*                                                                         *)
(* Further specifications cover one call run step by step on an explicit   *)
(* call stack (SpecSteps), the assert_jm! macro (SpecAssert), the matchers *)
(* AnyMatcher, UuidMatcher and U16Matcher (SpecExtra), the feature-gated   *)
(* DateTimeStringMatcher (SpecDateTime), recent_utc under a running clock  *)
(* (SpecClock), Display for JsonPath on two paths (SpecPaths), the builder *)
(* chain of ObjectMatcher (SpecBuild) and nested permissive and strict     *)
(* objects (SpecScope).                                                    *)
(***************************************************************************)
EXTENDS Integers, Sequences, FiniteSets, TLC

VARIABLES
    tree,       \* the matcher tree handed to json_matches (&self)
    candidate,  \* the candidate serde_json::Value
    errors,     \* the Vec<JsonMatcherError> the call returned
    calls,      \* every json_matches invocation the call made, in call order
    pc,         \* "built" before the call, "matched" after it returned,
                \* "panicked" after it panicked
    threads,    \* concurrent calls: each thread's call (candidate, position)
    buffers,    \* concurrent calls: the `errors` vector of each thread's call;
                \* rendering: the texts written by Display
    panicking,  \* the panic of assert_jm!: None, or Some(its message)
    now,        \* the wall clock Utc::now() reads
    chain,      \* the builder calls made on the matcher so far; the readings
                \* of the clock by recent_utc; the two paths to render
    expected,   \* the tokens of the second argument of assert_jm!; the
                \* expression a matcher is built from
    stack       \* the call stack of a json_matches call run step by step

vars == <<tree, candidate, errors, calls, pc, threads, buffers, panicking, now, chain, expected, stack>>

(***************************************************************************)
(* Strings.  A Rust string is a TLA+ string; format!/join are \o.  The     *)
(* byte order that Vec<String>::sort uses needs the bytes of a string,     *)
(* which TLA+ strings do not expose: Bytes tabulates the UTF-8 bytes of    *)
(* the strings the model uses as object keys.                              *)
(***************************************************************************)
Bytes(s) ==
    CASE s = "a"   -> <<97>>
      [] s = "ab"  -> <<97, 98>>
      [] s = "b"   -> <<98>>
      [] s = "B"   -> <<66>>
      [] s = "10"  -> <<49, 48>>
      [] s = "9"   -> <<57>>
      [] s = "a.b" -> <<97, 46, 98>>
      [] s = "0"   -> <<48>>
      [] s = "$"   -> <<36>>

\* <str as Ord>::lt : lexicographic comparison of the bytes
RECURSIVE BytesLess(_, _)
BytesLess(x, y) ==
    IF y = <<>> THEN FALSE
    ELSE IF x = <<>> THEN TRUE
    ELSE IF Head(x) # Head(y) THEN Head(x) < Head(y)
    ELSE BytesLess(Tail(x), Tail(y))

StrLess(s, t) == BytesLess(Bytes(s), Bytes(t))

\* one decimal digit, as format!("{}", n) prints it
Digit(d) ==
    CASE d = 0 -> "0" [] d = 1 -> "1" [] d = 2 -> "2" [] d = 3 -> "3"
      [] d = 4 -> "4" [] d = 5 -> "5" [] d = 6 -> "6" [] d = 7 -> "7"
      [] d = 8 -> "8" [] d = 9 -> "9"

\* format!("{}", n) for an unsigned integer
RECURSIVE FmtNat(_)
FmtNat(n) == IF n < 10 THEN Digit(n) ELSE FmtNat(n \div 10) \o Digit(n % 10)

\* format!("{}", n) for a signed integer
FmtInt(n) == IF n < 0 THEN "-" \o FmtNat(0 - n) ELSE FmtNat(n)

(***************************************************************************)
(* f64.  The model's floats are multiples of 1/2: F64(h) is the float h/2, *)
(* so 1.0 is F64(2) and 1.5 is F64(3).  The significand is scaled down     *)
(* with the integers: every integer up to F64_EXACT is an f64, and above   *)
(* it only every second, then every fourth, ... integer is (in Rust the    *)
(* threshold is 2^53, below i64::MAX as F64_EXACT is below I64_MAX).       *)
(***************************************************************************)
F64(h) == [halves |-> h]

F64_EXACT == 4

\* the distance between neighbouring f64 values at the magnitude n >= 0
RECURSIVE Ulp(_)
Ulp(n) == IF n < F64_EXACT THEN 1 ELSE 2 * Ulp(n \div 2)

\* n as f64, without the rounding: every integer is taken to be an f64
IntAsF64_exact(n) == F64(2 * n)

\* the f64 nearest to the integer n >= 0, a tie going to the even significand
RoundToF64(n) ==
    LET u == Ulp(n)
        q == n \div u
        r == n % u
    IN  IF 2 * r < u THEN q * u
        ELSE IF 2 * r > u THEN (q + 1) * u
        ELSE IF q % 2 = 0 THEN q * u ELSE (q + 1) * u

\* u64/i64 `as f64`
IntAsF64(n) == F64(2 * (IF n < 0 THEN 0 - RoundToF64(0 - n) ELSE RoundToF64(n)))

\* Display for f64: a whole float prints without a fraction ("4")
FmtF64(f) ==
    IF f.halves % 2 = 0 THEN FmtInt(f.halves \div 2)
    ELSE FmtInt(f.halves \div 2) \o ".5"

\* Display for a float-stored serde_json::Number: always with a fraction ("4.0")
FmtNumberFloat(f) ==
    IF f.halves % 2 = 0 THEN FmtInt(f.halves \div 2) \o ".0"
    ELSE FmtInt(f.halves \div 2) \o ".5"

(***************************************************************************)
(* serde_json::Value.  A Number is stored as PosInt(u64), NegInt(i64) or   *)
(* Float(f64).  i64 is scaled down to 4 bits: I64_MAX is the largest i64,  *)
(* and a PosInt above it is a u64 that no i64 holds.                       *)
(***************************************************************************)
I64_MAX == 7

Null == [t |-> "Null"]
Bool(b) == [t |-> "Bool", b |-> b]
PosInt(n) == [t |-> "Number", n |-> "PosInt", i |-> n]
NegInt(n) == [t |-> "Number", n |-> "NegInt", i |-> n]
Float(f) == [t |-> "Number", n |-> "Float", f |-> f]
String(s) == [t |-> "String", s |-> s]
Array(a) == [t |-> "Array", a |-> a]
Object(m) == [t |-> "Object", m |-> m]

None == [some |-> FALSE]
Some(x) == [some |-> TRUE, x |-> x]

\* Option::unwrap / Option::expect on a Some.  On a None they panic: every
\* caller tests `some` first and turns a None into the panicked outcome.
unwrap(opt) == opt.x

\* Number::as_i64
as_i64(num) ==
    CASE num.n = "PosInt" -> IF num.i <= I64_MAX THEN Some(num.i) ELSE None
      [] num.n = "NegInt" -> Some(num.i)
      [] num.n = "Float"  -> None

\* Number::as_f64 : every Number converts
as_f64(num) ==
    CASE num.n = "PosInt" -> Some(IntAsF64(num.i))
      [] num.n = "NegInt" -> Some(IntAsF64(num.i))
      [] num.n = "Float"  -> Some(num.f)

\* Display for serde_json::Number
FmtNumber(num) ==
    CASE num.n = "PosInt" -> FmtNat(num.i)
      [] num.n = "NegInt" -> FmtInt(num.i)
      [] num.n = "Float"  -> FmtNumberFloat(num.f)

(***************************************************************************)
(* src/error.rs                                                            *)
(***************************************************************************)
Root == [e |-> "Root"]
Index(i) == [e |-> "Index", index |-> i]
Key(k) == [e |-> "Key", key |-> k]

\* impl Display for JsonPathElement
FmtElement(e) ==
    CASE e.e = "Root"  -> "$"
      [] e.e = "Index" -> FmtNat(e.index)
      [] e.e = "Key"   -> e.key

\* [String]::join(sep)
RECURSIVE join(_, _)
join(strs, sep) ==
    IF strs = <<>> THEN ""
    ELSE IF Len(strs) = 1 THEN strs[1]
    ELSE strs[1] \o sep \o join(Tail(strs), sep)

\* impl Display for JsonPath
FmtPath(path) == join([i \in 1..Len(path) |-> FmtElement(path[i])], ".")

\* impl Default for JsonPath
JsonPath_default == <<Root>>

\* an extend that appends the child path as it is, leading Root included
extend_keeping_root(self, elements) == self \o elements

\* JsonPath::extend
extend(self, elements) ==
    IF elements # <<>> /\ Head(elements) = Root
    THEN self \o Tail(elements)
    ELSE self \o elements

JsonMatcherError(path, message) == [path |-> path, message |-> message]

\* JsonMatcherError::at_root
at_root(message) == JsonMatcherError(JsonPath_default, message)

\* impl Display for JsonMatcherError
FmtError(err) == FmtPath(err.path) \o ": " \o err.message

(***************************************************************************)
(* The matchers.  A matcher is a record tagged with its Rust type; a       *)
(* composite owns its children (Vec<Box<dyn JsonMatcher>> / HashMap).      *)
(***************************************************************************)
NullMatcher == [t |-> "NullMatcher"]
BooleanMatcher_exact(b) == [t |-> "BooleanMatcher", variant |-> "Exact", expected |-> b]
BooleanMatcher_any == [t |-> "BooleanMatcher", variant |-> "Any"]
IntegerMatcher(i) == [t |-> "IntegerMatcher", value |-> i]
NumberMatcher(f) == [t |-> "NumberMatcher", number |-> f]
StrMatcher(s) == [t |-> "StrMatcher", value |-> s]
ArrayMatcher_of(elements) == [t |-> "ArrayMatcher", elements |-> elements]
ObjectMatcher_of(fields) ==
    [t |-> "ObjectMatcher", allow_unexpected_keys |-> FALSE, fields |-> fields]
\* a flag that reaches every ObjectMatcher below, through arrays too
RECURSIVE allow_unexpected_keys_deep(_)
allow_unexpected_keys_deep(self) ==
    CASE self.t = "ObjectMatcher" ->
            [t |-> "ObjectMatcher", allow_unexpected_keys |-> TRUE,
             fields |-> [k \in DOMAIN self.fields |->
                            allow_unexpected_keys_deep(self.fields[k])]]
      [] self.t = "ArrayMatcher" ->
            [t |-> "ArrayMatcher",
             elements |-> [i \in DOMAIN self.elements |->
                              allow_unexpected_keys_deep(self.elements[i])]]
      [] OTHER -> self

\* ObjectMatcher::allow_unexpected_keys
allow_unexpected_keys(self) == [self EXCEPT !.allow_unexpected_keys = TRUE]

FmtBool(b) == IF b THEN "true" ELSE "false"

\* impl JsonMatcher for NullMatcher
NullMatcher_json_matches(self, value) ==
    IF value.t = "Null" THEN <<>> ELSE <<at_root("Value is not null")>>

\* BooleanMatcher::json_matches with the Any variant compared like Exact(true)
BooleanMatcher_json_matches_any_compares(self, value) ==
    IF value.t = "Bool"
    THEN IF value.b # (IF self.variant = "Exact" THEN self.expected ELSE TRUE)
         THEN <<at_root("Value is not true")>>
         ELSE <<>>
    ELSE <<at_root("Value is not a boolean")>>

\* impl JsonMatcher for BooleanMatcher
BooleanMatcher_json_matches(self, value) ==
    IF value.t = "Bool"
    THEN IF self.variant = "Exact"
         THEN IF value.b # self.expected
              THEN <<at_root("Value is not " \o FmtBool(self.expected))>>
              ELSE <<>>
         ELSE <<>>
    ELSE <<at_root("Value is not a boolean")>>

\* impl JsonMatcher for IntegerMatcher
IntegerMatcher_json_matches(self, value) ==
    IF value.t = "Number"
    THEN LET actual == as_i64(value)
         IN  IF ~actual.some
             THEN <<at_root("Expected integer " \o FmtInt(self.value)
                            \o " but got float " \o FmtNumber(value))>>
             ELSE IF actual.x = self.value
             THEN <<>>
             ELSE <<at_root("Expected integer " \o FmtInt(self.value)
                            \o " but got " \o FmtInt(actual.x))>>
    ELSE <<at_root("Value is not an integer")>>

\* NumberMatcher::json_matches without the conversion: an integer-stored
\* candidate is reported as an integer
NumberMatcher_json_matches_no_coercion(self, value) ==
    IF value.t = "Number"
    THEN IF value.n # "Float"
         THEN <<at_root("Expected float " \o FmtF64(self.number)
                        \o " but got integer " \o FmtNumber(value))>>
         ELSE IF value.f = self.number
         THEN <<>>
         ELSE <<at_root("Expected float " \o FmtF64(self.number)
                        \o " but got " \o FmtF64(value.f))>>
    ELSE <<at_root("Value is not a float")>>

\* impl JsonMatcher for NumberMatcher
NumberMatcher_json_matches(self, value) ==
    IF value.t = "Number"
    THEN LET actual == as_f64(value)
         IN  IF ~actual.some
             THEN <<at_root("Expected float " \o FmtF64(self.number)
                            \o " but got integer " \o FmtNumber(value))>>
             ELSE IF actual.x = self.number
             THEN <<>>
             ELSE <<at_root("Expected float " \o FmtF64(self.number)
                            \o " but got " \o FmtF64(actual.x))>>
    ELSE <<at_root("Value is not a float")>>

\* StrMatcher::json_matches with a mismatch message that leaves out the actual string
StrMatcher_json_matches_expected_only(self, value) ==
    IF value.t = "String"
    THEN IF value.s = self.value
         THEN <<>>
         ELSE <<at_root("Expected string \"" \o self.value \o "\"")>>
    ELSE <<at_root("Value is not a string")>>

\* impl JsonMatcher for StrMatcher (StringMatcher, &str and String delegate to it)
StrMatcher_json_matches(self, value) ==
    IF value.t = "String"
    THEN IF value.s = self.value
         THEN <<>>
         ELSE <<at_root("Expected string \"" \o self.value
                        \o "\" but got \"" \o value.s \o "\"")>>
    ELSE <<at_root("Value is not a string")>>

(***************************************************************************)
(* Collections.  A HashSet/HashMap iterates in an order the program does   *)
(* not control: h is that order, a sequence listing every key once, and    *)
(* iter(set, h) is what iterating `set` yields under it.                   *)
(***************************************************************************)
iter(set, h) == SelectSeq(h, LAMBDA k : k \in set)

\* Range<usize>::min and ::max of start..end : None on an empty range
range_min(start, end) == IF start < end THEN Some(start) ELSE None
range_max(start, end) == IF start < end THEN Some(end - 1) ELSE None

\* Iterator::min over the items of an array : None when there is none
array_min(items) ==
    IF items = <<>> THEN None
    ELSE Some(CHOOSE x \in {items[i] : i \in DOMAIN items} :
                 \A i \in DOMAIN items : x <= items[i])

\* vec[index] as an Option: None where the indexing panics (index >= len)
vec_index(vec, index) ==
    IF index + 1 \in DOMAIN vec THEN Some(vec[index + 1]) ELSE None

\* <[T]>::get(index)
slice_get(slice, index) ==
    IF index + 1 \in DOMAIN slice THEN Some(slice[index + 1]) ELSE None

\* HashMap::get(key) / serde_json::Map::get(key)
map_get(map, key) == IF key \in DOMAIN map THEN Some(map[key]) ELSE None

\* insert s into the sorted sequence strs, after the elements not greater
RECURSIVE insert_sorted(_, _)
insert_sorted(strs, s) ==
    IF strs = <<>> THEN <<s>>
    ELSE IF StrLess(s, Head(strs)) THEN <<s>> \o strs
    ELSE <<Head(strs)>> \o insert_sorted(Tail(strs), s)

\* Vec<String>::sort / Vec<&str>::sort : ascending byte order, stable
RECURSIVE sort(_)
sort(strs) ==
    IF strs = <<>> THEN <<>>
    ELSE insert_sorted(sort(SubSeq(strs, 1, Len(strs) - 1)), strs[Len(strs)])

(***************************************************************************)
(* src/matchers/array.rs : the two length checks and the re-rooting        *)
(***************************************************************************)
\* lines 22-37: the range actual_length..expected_length
missing_indexes_errors(actual_length, expected_length) ==
    IF actual_length < expected_length
    THEN LET min == unwrap(range_min(actual_length, expected_length))
             max == unwrap(range_max(actual_length, expected_length))
         IN  <<at_root(IF min = max
                       THEN "Array is missing index " \o FmtNat(min)
                       ELSE "Array is missing indexes: " \o FmtNat(min)
                            \o ".." \o FmtNat(max))>>
    ELSE <<>>

\* a range printed with its exclusive end
unexpected_indexes_errors_exclusive(actual_length, expected_length) ==
    IF expected_length < actual_length
    THEN LET min == expected_length
             max == actual_length
         IN  <<at_root(IF min = max
                       THEN "Array has unexpected index " \o FmtNat(min)
                       ELSE "Array has unexpected indexes: " \o FmtNat(min)
                            \o ".." \o FmtNat(max))>>
    ELSE <<>>

\* lines 38-53: the range expected_length..actual_length
unexpected_indexes_errors(actual_length, expected_length) ==
    IF expected_length < actual_length
    THEN LET min == unwrap(range_min(expected_length, actual_length))
             max == unwrap(range_max(expected_length, actual_length))
         IN  <<at_root(IF min = max
                       THEN "Array has unexpected index " \o FmtNat(min)
                       ELSE "Array has unexpected indexes: " \o FmtNat(min)
                            \o ".." \o FmtNat(max))>>
    ELSE <<>>

\* element checks that run over the longer of the two lengths
expected_and_present_indexes_longest(actual_length, expected_length) ==
    IF actual_length < expected_length THEN expected_length ELSE actual_length

\* element checks that run only when the lengths agree
expected_and_present_indexes_if_equal(actual_length, expected_length) ==
    IF actual_length = expected_length THEN expected_length ELSE 0

\* lines 54-57: 0..min(actual_length, expected_length), as the indexes 0..n-1
expected_and_present_indexes(actual_length, expected_length) ==
    unwrap(array_min(<<actual_length, expected_length>>))

\* a re-rooting that puts the child's locator behind the child's path
reroot_appended(element, sub_error) ==
    JsonMatcherError(extend(sub_error.path, <<element>>), sub_error.message)

\* array.rs lines 62-73 and object.rs lines 59-70: one child error, re-rooted
\* under `element` (the Index or the Key of the child)
reroot(element, sub_error) ==
    JsonMatcherError(extend(<<Root, element>>, sub_error.path), sub_error.message)

\* a loop that stops re-rooting after the child's first error
reroot_all_first_only(element, sub_errors) ==
    IF sub_errors = <<>> THEN <<>> ELSE <<reroot(element, sub_errors[1])>>

\* the inner loop `for sub_error in sub_errors`
reroot_all(element, sub_errors) ==
    [i \in 1..Len(sub_errors) |-> reroot(element, sub_errors[i])]

(***************************************************************************)
(* src/matchers/object.rs : the key reconciliation                         *)
(***************************************************************************)
\* a reconciliation that reports missing keys only when no key is unexpected
missing_keys_errors_exclusive(expected_keys, actual_keys, h) ==
    LET expected_but_missing == iter(expected_keys \ actual_keys, h)
    IN  IF expected_but_missing # <<>> /\ actual_keys \subseteq expected_keys
        THEN <<at_root("Object is missing keys: "
                       \o join(sort(expected_but_missing), ", "))>>
        ELSE <<>>

\* a reconciliation that forgets the expected-but-missing keys
missing_keys_errors_dropped(expected_keys, actual_keys, h) == <<>>

\* the missing keys listed in the order the hash set gave them, not sorted
missing_keys_errors_unsorted(expected_keys, actual_keys, h) ==
    LET expected_but_missing == iter(expected_keys \ actual_keys, h)
    IN  IF expected_but_missing # <<>>
        THEN <<at_root("Object is missing keys: "
                       \o join(expected_but_missing, ", "))>>
        ELSE <<>>

\* lines 28-38
missing_keys_errors(expected_keys, actual_keys, h) ==
    LET expected_but_missing == iter(expected_keys \ actual_keys, h)
    IN  IF expected_but_missing # <<>>
        THEN <<at_root("Object is missing keys: "
                       \o join(sort(expected_but_missing), ", "))>>
        ELSE <<>>

\* a reconciliation that reports unexpected keys whatever the flag says
unexpected_keys_errors_ignoring_flag(allow, expected_keys, actual_keys, h) ==
    LET unexpected == iter(actual_keys \ expected_keys, h)
    IN  IF unexpected # <<>>
        THEN <<at_root("Object has unexpected keys: "
                       \o join(sort(unexpected), ", "))>>
        ELSE <<>>

\* lines 39-51
unexpected_keys_errors(allow, expected_keys, actual_keys, h) ==
    IF ~allow
    THEN LET unexpected == iter(actual_keys \ expected_keys, h)
         IN  IF unexpected # <<>>
             THEN <<at_root("Object has unexpected keys: "
                            \o join(sort(unexpected), ", "))>>
             ELSE <<>>
    ELSE <<>>

\* the shared keys in whatever order the hash set yields them
expected_and_present_unsorted(expected_keys, actual_keys, h) ==
    iter(expected_keys \cap actual_keys, h)

\* lines 52-55
expected_and_present(expected_keys, actual_keys, h) ==
    sort(iter(expected_keys \cap actual_keys, h))

(***************************************************************************)
(* json_matches.  Invoke(self, value, h) is one call of                    *)
(* self.json_matches(&value): `errors` is the vector it returns, `calls`   *)
(* lists the call itself and every call made below it, each with the path  *)
(* of the element it was made on, the matcher and the value.               *)
(***************************************************************************)
Call(path, self, value) == [path |-> path, matcher |-> self, value |-> value]

reroot_calls(element, sub_calls) ==
    [i \in 1..Len(sub_calls) |->
        [sub_calls[i] EXCEPT !.path = <<Root, element>> \o Tail(@)]]

NoCalls(errs) == [errors |-> errs, calls |-> <<>>, panicked |-> FALSE]

\* the outcome of a call in which an expect, an unwrap or an indexing failed:
\* the call unwinds and returns nothing
Panicked == [errors |-> <<>>, calls |-> <<>>, panicked |-> TRUE]

\* array.rs lines 24-30, 40-46, 54-57: the Options the length checks unwrap
unwrapped_indexes(actual_length, expected_length) ==
    (IF actual_length < expected_length
     THEN <<range_min(actual_length, expected_length),
            range_max(actual_length, expected_length)>>
     ELSE <<>>)
    \o (IF expected_length < actual_length
        THEN <<range_min(expected_length, actual_length),
               range_max(expected_length, actual_length)>>
        ELSE <<>>)
    \o <<array_min(<<actual_length, expected_length>>)>>

\* an array matcher that reports a non-array with the object matcher's message
not_an_array_pasted == at_root("Value is not an object")

\* array.rs line 76
not_an_array == at_root("Value is not an array")

\* object.rs line 73
not_an_object == at_root("Value is not an object")

(***************************************************************************)
(* src/matchers/any.rs, src/uuid_matcher.rs, src/u16_matcher.rs.  u16 is   *)
(* scaled down like i64: U16_MAX is the largest u16, below I64_MAX.        *)
(***************************************************************************)
AnyMatcher_new == [t |-> "AnyMatcher", not_null |-> FALSE]
AnyMatcher_not_null == [t |-> "AnyMatcher", not_null |-> TRUE]

\* a not_null flag that also turns away false
AnyMatcher_json_matches_falsy(self, value) ==
    IF self.not_null /\ value \in {Null, Bool(FALSE)}
    THEN <<at_root("Expected non-null value")>>
    ELSE <<>>

AnyMatcher_json_matches(self, value) ==
    IF self.not_null /\ value.t = "Null"
    THEN <<at_root("Expected non-null value")>>
    ELSE <<>>

UuidMatcher_new == [t |-> "UuidMatcher"]

\* the number of bytes of the UTF-8 encoding of a character of the model
len_utf8(c) ==
    CASE c = "é" -> 2
      [] c = "€" -> 3
      [] OTHER -> 1

\* str::len: the length in bytes
RECURSIVE str_len(_)
str_len(s) ==
    IF s = "" THEN 0 ELSE len_utf8(SubSeq(s, 1, 1)) + str_len(SubSeq(s, 2, Len(s)))

\* s.chars().filter(|&c| c == '-').count()
hyphens(s) == Cardinality({i \in 1..Len(s) : SubSeq(s, i, i) = "-"})

\* UuidMatcher::json_matches
UuidMatcher_json_matches(self, value) ==
    IF value.t = "String"
    THEN IF str_len(value.s) = 36 /\ hyphens(value.s) = 4 THEN <<>>
         ELSE <<at_root("Expected valid UUID format")>>
    ELSE <<at_root("Expected string for UUID")>>

U16_MAX == 3

U16Matcher_new == [t |-> "U16Matcher", allow_strings |-> FALSE]
U16Matcher_new_allow_strings == [t |-> "U16Matcher", allow_strings |-> TRUE]

\* char::to_digit(10), -1 for None
to_digit(c) ==
    CASE c = "0" -> 0 [] c = "1" -> 1 [] c = "2" -> 2 [] c = "3" -> 3
      [] c = "4" -> 4 [] c = "5" -> 5 [] c = "6" -> 6 [] c = "7" -> 7
      [] c = "8" -> 8 [] c = "9" -> 9 [] OTHER -> 0 - 1

\* the digit loop of u16::from_str_radix: checked_mul(10), checked_add(digit)
RECURSIVE parse_digits(_, _, _)
parse_digits(s, i, result) ==
    IF i > Len(s) THEN Some(result)
    ELSE LET digit == to_digit(SubSeq(s, i, i))
         IN  IF digit < 0 THEN None
             ELSE IF result * 10 + digit > U16_MAX THEN None
             ELSE parse_digits(s, i + 1, result * 10 + digit)

\* a parser that takes digits only
parse_u16_unsigned(s) ==
    IF s = "" THEN None ELSE parse_digits(s, 1, 0)

\* str::parse::<u16>: empty, a lone sign and '-' are errors, one leading '+'
\* is skipped
parse_u16(s) ==
    IF s = "" THEN None
    ELSE IF s \in {"+", "-"} THEN None
    ELSE IF SubSeq(s, 1, 1) = "+" THEN parse_digits(s, 2, 0)
    ELSE parse_digits(s, 1, 0)

U16Matcher_json_matches(self, value) ==
    IF self.allow_strings
    THEN IF value.t = "String"
         THEN IF parse_u16(value.s).some THEN <<>>
              ELSE <<at_root("Expected number fitting u16")>>
         ELSE <<at_root("Expected string fitting u16")>>
    ELSE LET s == IF value.t = "Number" THEN as_i64(value) ELSE None
         IN  IF s.some
             THEN IF unwrap(s) \in 0..U16_MAX THEN <<>>
                  ELSE <<at_root("Integer out of bounds for u16")>>
             ELSE <<at_root("Expected number fitting u16")>>

(***************************************************************************)
(* src/datetime.rs.  A DateTime is its instant (whole seconds since the    *)
(* epoch and the milliseconds within the second) and its UTC offset in     *)
(* seconds.  chrono's RFC 3339 parser scans the text from left to right    *)
(* and stops at the first thing it cannot take.                            *)
(***************************************************************************)
Ok(x) == [ok |-> TRUE, x |-> x]
Err(e) == [ok |-> FALSE, e |-> e]

TOO_SHORT == "premature end of input"
INVALID == "input contains invalid characters"
OUT_OF_RANGE == "input is out of range"
TOO_LONG == "trailing input"

DateTime(secs, millis, offset) == [secs |-> secs, millis |-> millis, offset |-> offset]

\* the days from 1970-01-01 to a date of the proleptic Gregorian calendar
days_from_civil(year, month, day) ==
    LET y == IF month <= 2 THEN year - 1 ELSE year
        era == y \div 400
        yoe == y - era * 400
        mp == IF month > 2 THEN month - 3 ELSE month + 9
        doy == (153 * mp + 2) \div 5 + day - 1
        doe == yoe * 365 + yoe \div 4 - yoe \div 100 + doy
    IN  era * 146097 + doe - 719468

\* the date of a day number, as <<year, month, day>>
civil_from_days(days) ==
    LET z == days + 719468
        era == z \div 146097
        doe == z - era * 146097
        yoe == (doe - doe \div 1460 + doe \div 36524 - doe \div 146096) \div 365
        doy == doe - (365 * yoe + yoe \div 4 - yoe \div 100)
        mp == (5 * doy + 2) \div 153
        day == doy - (153 * mp + 2) \div 5 + 1
        month == IF mp < 10 THEN mp + 3 ELSE mp - 9
    IN  <<(yoe + era * 400) + (IF month <= 2 THEN 1 ELSE 0), month, day>>

days_in_month(year, month) ==
    CASE month \in {4, 6, 9, 11} -> 30
      [] month = 2 ->
            IF year % 4 = 0 /\ (year % 100 # 0 \/ year % 400 = 0) THEN 29 ELSE 28
      [] OTHER -> 31

RECURSIVE digits_value(_, _, _)
digits_value(s, i, n) ==
    IF n = 0 THEN 0
    ELSE digits_value(s, i, n - 1) * 10 + to_digit(SubSeq(s, i + n - 1, i + n - 1))

\* scan::scan_number(s, n, n) on the text from position i, checked against a range
scan_number(s, i, n, range) ==
    IF Len(s) - i + 1 < n THEN Err(TOO_SHORT)
    ELSE IF \E j \in i..(i + n - 1) : to_digit(SubSeq(s, j, j)) < 0 THEN Err(INVALID)
    ELSE IF digits_value(s, i, n) \notin range THEN Err(OUT_OF_RANGE)
    ELSE Ok(digits_value(s, i, n))

\* scan::char on the text from position i
scan_char(s, i, set) ==
    IF i > Len(s) THEN Err(TOO_SHORT)
    ELSE IF SubSeq(s, i, i) \in set THEN Ok(i + 1)
    ELSE Err(INVALID)

\* the first position from i on that holds no digit
RECURSIVE skip_digits(_, _)
skip_digits(s, i) ==
    IF i <= Len(s) /\ to_digit(SubSeq(s, i, i)) >= 0 THEN skip_digits(s, i + 1) ELSE i

\* the first error of a sequence of scans, or Ok of their values
first_error(scans) ==
    IF \E k \in DOMAIN scans : ~scans[k].ok
    THEN scans[CHOOSE k \in DOMAIN scans :
                  ~scans[k].ok /\ \A j \in 1..(k - 1) : scans[j].ok]
    ELSE Ok([k \in DOMAIN scans |-> scans[k].x])

\* scan::timezone_offset with 'Z' allowed: <<offset in seconds, next position>>
timezone_offset(s, i) ==
    IF i > Len(s) THEN Err(TOO_SHORT)
    ELSE IF SubSeq(s, i, i) \in {"Z", "z"} THEN Ok(<<0, i + 1>>)
    ELSE IF SubSeq(s, i, i) \notin {"+", "-"} THEN Err(INVALID)
    ELSE LET scans == first_error(<<scan_number(s, i + 1, 2, 0..99),
                                    scan_char(s, i + 3, {":"}),
                                    scan_number(s, i + 4, 2, 0..59)>>)
             sign == IF SubSeq(s, i, i) = "-" THEN 0 - 1 ELSE 1
         IN  IF ~scans.ok THEN scans
             ELSE Ok(<<sign * (scans.x[1] * 3600 + scans.x[3] * 60), i + 6>>)

\* DateTime::parse_from_rfc3339
parse_from_rfc3339(s) ==
    LET scans == first_error(<<scan_number(s, 1, 4, 0..9999), scan_char(s, 5, {"-"}),
                               scan_number(s, 6, 2, 1..12), scan_char(s, 8, {"-"}),
                               scan_number(s, 9, 2, 1..31), scan_char(s, 11, {"T", "t", " "}),
                               scan_number(s, 12, 2, 0..23), scan_char(s, 14, {":"}),
                               scan_number(s, 15, 2, 0..59), scan_char(s, 17, {":"}),
                               scan_number(s, 18, 2, 0..60)>>)
        dotted == Len(s) >= 20 /\ SubSeq(s, 20, 20) = "."
        fraction == IF dotted THEN scan_number(s, 21, 1, 0..9) ELSE Ok(0)
        after == IF dotted THEN skip_digits(s, 21) ELSE 20
        millis == IF ~dotted THEN 0
                  ELSE IF after - 21 >= 3 THEN digits_value(s, 21, 3)
                  ELSE IF after - 21 = 2 THEN digits_value(s, 21, 2) * 10
                  ELSE digits_value(s, 21, 1) * 100
        offset == timezone_offset(s, after)
    IN  IF ~scans.ok THEN scans
        ELSE IF ~fraction.ok THEN fraction
        ELSE IF ~offset.ok THEN offset
        ELSE IF offset.x[2] <= Len(s) THEN Err(TOO_LONG)
        ELSE IF scans.x[5] > days_in_month(scans.x[1], scans.x[3]) THEN Err(OUT_OF_RANGE)
        ELSE Ok(DateTime(days_from_civil(scans.x[1], scans.x[3], scans.x[5]) * 86400
                         + scans.x[7] * 3600 + scans.x[9] * 60 + scans.x[11]
                         - offset.x[1],
                         millis,
                         offset.x[1]))

\* parse_datetime_from_string(s, None): a text without offset is read as UTC
parse_datetime_from_string(s) ==
    LET first == parse_from_rfc3339(s)
        parsed == parse_from_rfc3339(s \o "Z")
    IN  IF first.ok THEN first
        ELSE IF parsed.ok THEN parsed
        ELSE Err("Value cannot be parsed as an RFC 3339 timestamp: " \o first.e)

pad(n, width) == IF width = 2 /\ n < 10 THEN "0" \o FmtNat(n)
                 ELSE IF width = 3 /\ n < 10 THEN "00" \o FmtNat(n)
                 ELSE IF width = 3 /\ n < 100 THEN "0" \o FmtNat(n)
                 ELSE FmtNat(n)

\* DateTime<Utc>::to_rfc3339
to_rfc3339(datetime) ==
    LET date == civil_from_days(datetime.secs \div 86400)
        secs == datetime.secs % 86400
    IN  FmtNat(date[1]) \o "-" \o pad(date[2], 2) \o "-" \o pad(date[3], 2)
        \o "T" \o pad(secs \div 3600, 2) \o ":" \o pad((secs % 3600) \div 60, 2)
        \o ":" \o pad(secs % 60, 2)
        \o (IF datetime.millis = 0 THEN "" ELSE "." \o pad(datetime.millis, 3))
        \o "+00:00"

DateTimeStringMatcher(lower_bound, lower_bound_inclusive, upper_bound, upper_bound_inclusive) ==
    [t |-> "DateTimeStringMatcher",
     lower_bound |-> lower_bound, lower_bound_inclusive |-> lower_bound_inclusive,
     upper_bound |-> upper_bound, upper_bound_inclusive |-> upper_bound_inclusive]

\* the check of the upper bound
upper_bound_errors(self, datetime) ==
    IF self.upper_bound.some
    THEN IF self.upper_bound_inclusive
         THEN IF datetime.secs > unwrap(self.upper_bound).secs
              THEN <<at_root("Datetime is after upper bound")>>
              ELSE <<>>
         ELSE IF datetime.secs >= unwrap(self.upper_bound).secs
              THEN <<at_root("Datetime is after or equal to upper bound")>>
              ELSE <<>>
    ELSE <<>>

\* the check of the lower bound
lower_bound_errors(self, datetime) ==
    IF self.lower_bound.some
    THEN IF self.lower_bound_inclusive
         THEN IF datetime.secs < unwrap(self.lower_bound).secs
              THEN <<at_root("Datetime is before lower bound of "
                             \o to_rfc3339(unwrap(self.lower_bound)))>>
              ELSE <<>>
         ELSE IF datetime.secs <= unwrap(self.lower_bound).secs
              THEN <<at_root("Datetime is before or equal to lower bound")>>
              ELSE <<>>
    ELSE <<>>

\* a matcher that checks the bounds before the offset
DateTimeStringMatcher_json_matches_bounds_first(self, value) ==
    IF value.t # "String" THEN <<at_root("Datetime value needs to be a string")>>
    ELSE LET datetime == parse_datetime_from_string(value.s)
         IN  IF ~datetime.ok
             THEN <<at_root("Could not parse string as rfc3339 datetime: "
                            \o datetime.e)>>
             ELSE IF upper_bound_errors(self, datetime.x) # <<>>
             THEN upper_bound_errors(self, datetime.x)
             ELSE IF lower_bound_errors(self, datetime.x) # <<>>
             THEN lower_bound_errors(self, datetime.x)
             ELSE IF 0 - datetime.x.offset # 0
             THEN <<at_root("Datetime is not in UTC")>>
             ELSE <<>>

DateTimeStringMatcher_json_matches(self, value) ==
    IF value.t # "String" THEN <<at_root("Datetime value needs to be a string")>>
    ELSE LET datetime == parse_datetime_from_string(value.s)
         IN  IF ~datetime.ok
             THEN <<at_root("Could not parse string as rfc3339 datetime: "
                            \o datetime.e)>>
             ELSE IF 0 - datetime.x.offset # 0
             THEN <<at_root("Datetime is not in UTC")>>
             ELSE IF upper_bound_errors(self, datetime.x) # <<>>
             THEN upper_bound_errors(self, datetime.x)
             ELSE lower_bound_errors(self, datetime.x)

RECURSIVE Invoke(_, _, _)
RECURSIVE element_loop(_, _, _, _, _)
RECURSIVE field_loop(_, _, _, _)

\* array.rs lines 58-74: for index in expected_and_present_indexes
element_loop(elements, array, index, n, h) ==
    IF index >= n THEN NoCalls(<<>>)
    ELSE LET matcher == vec_index(elements, index)
             value == slice_get(array, index)
         IN  IF ~matcher.some \/ ~value.some THEN Panicked
             ELSE LET sub == Invoke(unwrap(matcher), unwrap(value), h)
                      rest == element_loop(elements, array, index + 1, n, h)
                  IN  IF sub.panicked \/ rest.panicked THEN Panicked
                      ELSE [errors |-> reroot_all(Index(index), sub.errors)
                                       \o rest.errors,
                            calls  |-> reroot_calls(Index(index), sub.calls)
                                       \o rest.calls,
                            panicked |-> FALSE]

\* object.rs lines 56-71: for key in expected_and_present
field_loop(fields, map, keys, h) ==
    IF keys = <<>> THEN NoCalls(<<>>)
    ELSE LET key == Head(keys)
             matcher == map_get(fields, key)
             value == map_get(map, key)
         IN  IF ~matcher.some \/ ~value.some THEN Panicked
             ELSE LET sub == Invoke(unwrap(matcher), unwrap(value), h)
                      rest == field_loop(fields, map, Tail(keys), h)
                  IN  IF sub.panicked \/ rest.panicked THEN Panicked
                      ELSE [errors |-> reroot_all(Key(key), sub.errors)
                                       \o rest.errors,
                            calls  |-> reroot_calls(Key(key), sub.calls)
                                       \o rest.calls,
                            panicked |-> FALSE]

\* impl JsonMatcher for ArrayMatcherRefs (ArrayMatcher delegates to it)
ArrayMatcher_json_matches(self, value, h) ==
    IF value.t = "Array"
    THEN LET actual_length == Len(value.a)
             expected_length == Len(self.elements)
             unwrapped == unwrapped_indexes(actual_length, expected_length)
             loop == element_loop(self.elements, value.a, 0,
                        expected_and_present_indexes(actual_length, expected_length), h)
         IN  IF \E i \in DOMAIN unwrapped : ~unwrapped[i].some THEN Panicked
             ELSE IF loop.panicked THEN Panicked
             ELSE [errors |-> missing_indexes_errors(actual_length, expected_length)
                              \o unexpected_indexes_errors(actual_length,
                                                           expected_length)
                              \o loop.errors,
                   calls  |-> loop.calls,
                   panicked |-> FALSE]
    ELSE NoCalls(<<not_an_array>>)

\* impl JsonMatcher for ObjectMatcherRefs (ObjectMatcher delegates to it)
ObjectMatcher_json_matches(self, value, h) ==
    IF value.t = "Object"
    THEN LET actual_keys == DOMAIN value.m
             expected_keys == DOMAIN self.fields
             loop == field_loop(self.fields, value.m,
                        expected_and_present(expected_keys, actual_keys, h), h)
         IN  IF loop.panicked THEN Panicked
             ELSE [errors |-> missing_keys_errors(expected_keys, actual_keys, h)
                              \o unexpected_keys_errors(self.allow_unexpected_keys,
                                                        expected_keys, actual_keys, h)
                              \o loop.errors,
                   calls  |-> loop.calls,
                   panicked |-> FALSE]
    ELSE NoCalls(<<not_an_object>>)

(***************************************************************************)
(* Literals used as matchers.  A serde_json Value is itself a matcher      *)
(* (src/matchers/value.rs), and so are the Rust values (), bool, the       *)
(* integers i8..i64 and u8..u32, f32/f64, &str/String and Vec/slice; each  *)
(* builds the explicit matcher and delegates to it.                        *)
(***************************************************************************)
Unit == [t |-> "()"]
RustBool(b) == [t |-> "bool", value |-> b]
\* i8, i16, i32, i64, u8, u16, u32: `*self as i64` keeps the value of each
RustInt(i) == [t |-> "i64", value |-> i]
\* f32, f64: `*self as f64` keeps the value
RustFloat(f) == [t |-> "f64", value |-> f]
\* &str, &String, String
RustStr(s) == [t |-> "&str", value |-> s]
\* Vec<T>, [T] and the Vec/slice of boxed or borrowed dyn matchers
RustVec(elements) == [t |-> "Vec", elements |-> elements]

JsonTypes == {"Null", "Bool", "Number", "String", "Array", "Object"}

\* ArrayMatcherRefs::new / ObjectMatcherRefs::new
ArrayMatcherRefs_new(elements) == [t |-> "ArrayMatcher", elements |-> elements]
ObjectMatcherRefs_new(allow, fields) ==
    [t |-> "ObjectMatcher", allow_unexpected_keys |-> allow, fields |-> fields]

\* the Number arm of Value::json_matches, with every number made a NumberMatcher
Value_number_matcher_always_float(number) == NumberMatcher(unwrap(as_f64(number)))

\* the Number arm of Value::json_matches: the matcher a Value::Number stands for
Value_number_matcher(number) ==
    LET integer == as_i64(number)
    IN  IF integer.some THEN IntegerMatcher(integer.x)
        ELSE NumberMatcher(unwrap(as_f64(number)))

\* the Object arm of Value::json_matches, with unexpected keys allowed
Value_object_matcher_permissive(map) == ObjectMatcherRefs_new(TRUE, map)

\* the Object arm of Value::json_matches: the matcher a Value::Object stands for
Value_object_matcher(map) == ObjectMatcherRefs_new(FALSE, map)

\* impl JsonMatcher for Value
Value_json_matches(self, value, h) ==
    CASE self.t = "Null" ->
            NoCalls(NullMatcher_json_matches(NullMatcher, value))
      [] self.t = "Bool" ->
            NoCalls(BooleanMatcher_json_matches(BooleanMatcher_exact(self.b), value))
      [] self.t = "Number" ->
            IF ~as_i64(self).some /\ ~as_f64(self).some THEN Panicked
            ELSE LET matcher == Value_number_matcher(self)
                 IN  IF matcher.t = "IntegerMatcher"
                     THEN NoCalls(IntegerMatcher_json_matches(matcher, value))
                     ELSE NoCalls(NumberMatcher_json_matches(matcher, value))
      [] self.t = "String" ->
            NoCalls(StrMatcher_json_matches(StrMatcher(self.s), value))
      [] self.t = "Array" ->
            ArrayMatcher_json_matches(ArrayMatcherRefs_new(self.a), value, h)
      [] self.t = "Object" ->
            ObjectMatcher_json_matches(Value_object_matcher(self.m), value, h)

\* impl JsonMatcher for (), bool, the integers, the floats, the strings, Vec
Rust_json_matches(self, value, h) ==
    CASE self.t = "()" ->
            NoCalls(NullMatcher_json_matches(NullMatcher, value))
      [] self.t = "bool" ->
            NoCalls(BooleanMatcher_json_matches(BooleanMatcher_exact(self.value), value))
      [] self.t = "i64" ->
            NoCalls(IntegerMatcher_json_matches(IntegerMatcher(self.value), value))
      [] self.t = "f64" ->
            NoCalls(NumberMatcher_json_matches(NumberMatcher(self.value), value))
      [] self.t = "&str" ->
            NoCalls(StrMatcher_json_matches(StrMatcher(self.value), value))
      [] self.t = "Vec" ->
            ArrayMatcher_json_matches(ArrayMatcherRefs_new(self.elements), value, h)

\* dyn JsonMatcher::json_matches : dispatch on the matcher's type
Invoke(self, value, h) ==
    LET r == CASE self.t = "NullMatcher" ->
                    NoCalls(NullMatcher_json_matches(self, value))
               [] self.t = "BooleanMatcher" ->
                    NoCalls(BooleanMatcher_json_matches(self, value))
               [] self.t = "IntegerMatcher" ->
                    NoCalls(IntegerMatcher_json_matches(self, value))
               [] self.t = "NumberMatcher" ->
                    NoCalls(NumberMatcher_json_matches(self, value))
               [] self.t = "StrMatcher" ->
                    NoCalls(StrMatcher_json_matches(self, value))
               [] self.t = "ArrayMatcher" ->
                    ArrayMatcher_json_matches(self, value, h)
               [] self.t = "ObjectMatcher" ->
                    ObjectMatcher_json_matches(self, value, h)
               [] self.t \in JsonTypes ->
                    Value_json_matches(self, value, h)
               [] self.t = "AnyMatcher" ->
                    NoCalls(AnyMatcher_json_matches(self, value))
               [] self.t = "UuidMatcher" ->
                    NoCalls(UuidMatcher_json_matches(self, value))
               [] self.t = "U16Matcher" ->
                    NoCalls(U16Matcher_json_matches(self, value))
               [] self.t \in {"()", "bool", "i64", "f64", "&str", "Vec"} ->
                    Rust_json_matches(self, value, h)
    IN  IF r.panicked THEN Panicked
        ELSE [errors |-> r.errors,
              calls  |-> <<Call(JsonPath_default, self, value)>> \o r.calls,
              panicked |-> FALSE]

json_matches(self, value, h) == Invoke(self, value, h).errors

(***************************************************************************)
(* Inputs.  Trees are built bottom-up from leaf sets: composites over a    *)
(* set of children, iterated to a depth.                                   *)
(***************************************************************************)
MaxLen == 2         \* longest array (matcher and candidate) of the wide families
MaxDepth == 3       \* nesting depth of the deep family
MaxExpectedLen == 3 \* longest ArrayMatcher of the length family
MaxActualLen == 5   \* longest candidate array of the length family

Keys == {"a", "ab", "b"}

\* the keys of the key-reconciliation family, in byte order: 10 < B < a < ab < b
ManyKeys == {"a", "ab", "b", "B", "10"}

\* every order in which a HashSet of the keys K can iterate
HashOrders(K) ==
    {h \in [1..Cardinality(K) -> K] : \A i, j \in 1..Cardinality(K) : h[i] = h[j] => i = j}

\* the object keys that occur anywhere in a value / in a matcher tree
RECURSIVE KeysOfValue(_)
KeysOfValue(v) ==
    CASE v.t = "Array"  -> UNION {KeysOfValue(v.a[i]) : i \in DOMAIN v.a}
      [] v.t = "Object" -> DOMAIN v.m \cup UNION {KeysOfValue(v.m[k]) : k \in DOMAIN v.m}
      [] OTHER -> {}
RECURSIVE KeysOfMatcher(_)
KeysOfMatcher(m) ==
    CASE m.t = "ArrayMatcher"  -> UNION {KeysOfMatcher(m.elements[i]) : i \in DOMAIN m.elements}
      [] m.t = "Vec" -> UNION {KeysOfMatcher(m.elements[i]) : i \in DOMAIN m.elements}
      [] m.t \in {"Array", "Object"} -> KeysOfValue(m)
      [] m.t = "ObjectMatcher" ->
            DOMAIN m.fields \cup UNION {KeysOfMatcher(m.fields[k]) : k \in DOMAIN m.fields}
      [] OTHER -> {}
KeysOf(m, v) == KeysOfMatcher(m) \cup KeysOfValue(v)

ArraysOver(S, len) == {Array(a) : a \in UNION {[1..n -> S] : n \in 0..len}}
ObjectsOver(S, keys) == {Object(m) : m \in UNION {[K -> S] : K \in SUBSET keys}}
ArrayMatchersOver(S, len) ==
    {ArrayMatcher_of(es) : es \in UNION {[1..n -> S] : n \in 0..len}}
ObjectMatchersOver(S, keys) ==
    LET strict == {ObjectMatcher_of(fs) : fs \in UNION {[K -> S] : K \in SUBSET keys}}
    IN  strict \cup {allow_unexpected_keys(m) : m \in strict}

RECURSIVE ValueTrees(_, _, _, _)
ValueTrees(d, leaves, keys, len) ==
    IF d = 0 THEN leaves
    ELSE LET sub == ValueTrees(d - 1, leaves, keys, len)
         IN  leaves \cup ArraysOver(sub, len) \cup ObjectsOver(sub, keys)

RECURSIVE MatcherTrees(_, _, _, _)
MatcherTrees(d, leaves, keys, len) ==
    IF d = 0 THEN leaves
    ELSE LET sub == MatcherTrees(d - 1, leaves, keys, len)
         IN  leaves \cup ArrayMatchersOver(sub, len) \cup ObjectMatchersOver(sub, keys)

LeafMatchers ==
    {NullMatcher, BooleanMatcher_exact(TRUE), BooleanMatcher_exact(FALSE),
     BooleanMatcher_any, IntegerMatcher(1), IntegerMatcher(-1),
     NumberMatcher(F64(2)), NumberMatcher(F64(3)), StrMatcher("x"), StrMatcher("")}
LeafValues ==
    {Null, Bool(TRUE), Bool(FALSE), PosInt(1), PosInt(2), PosInt(I64_MAX + 1),
     NegInt(-1), Float(F64(2)), Float(F64(3)), String("x"), String("y")}

\* every primitive, alone and as the only child of a composite
SlotMatchers == MatcherTrees(1, LeafMatchers, {"a"}, 1)
SlotValues == ValueTrees(1, LeafValues, {"a"}, 1)

\* one level of composites over all keys and lengths
WideMatchers ==
    MatcherTrees(1, {NullMatcher, IntegerMatcher(1), StrMatcher("x")}, Keys, MaxLen)
WideValues == ValueTrees(1, {Null, PosInt(1), String("y")}, Keys, MaxLen)

\* composites of composites: children that return several errors each
MidMatchers ==
    LET children == {StrMatcher("x"),
                     ArrayMatcher_of(<<StrMatcher("x"), StrMatcher("x")>>),
                     ObjectMatcher_of([k \in {"a", "b"} |-> StrMatcher("x")])}
    IN  ArrayMatchersOver(children, MaxLen) \cup ObjectMatchersOver(children, Keys)
MidValues ==
    LET children == {String("y"),
                     Array(<<String("y")>>),
                     Object([k \in {"a", "ab"} |-> String("y")])}
    IN  ArraysOver(children, MaxLen) \cup ObjectsOver(children, Keys)

\* narrow trees nested MaxDepth deep
DeepMatchers ==
    MatcherTrees(MaxDepth, {NumberMatcher(F64(2)), IntegerMatcher(1), StrMatcher("x")},
                 {"a"}, 1)
DeepValues == ValueTrees(MaxDepth, {Null, PosInt(1), String("x")}, {"a"}, 1)

\* arrays of every length against array matchers of every length
LenMatchers == ArrayMatchersOver({IntegerMatcher(1), StrMatcher("x")}, MaxExpectedLen)
LenValues == ArraysOver({PosInt(1), PosInt(2)}, MaxActualLen)

\* the integer and the float matchers against JSON numbers of every storage and
\* every magnitude: i64 is I64_MIN..I64_MAX, u64 is 0..U64_MAX
I64_MIN == 0 - I64_MAX - 1
U64_MAX == 2 * I64_MAX + 1
\* the f64 values of the model, in halves, and their negatives
F64Halves ==
    LET pos == {0, 1, 2, 3, 4, 6, 8, 12, 16, 24, 32}
    IN  pos \cup {0 - h : h \in pos}
\* those of them whose significand is even
F64EvenHalves ==
    LET pos == {0, 1, 2, 4, 8, 16, 32}
    IN  pos \cup {0 - h : h \in pos}
NumMatchers ==
    {IntegerMatcher(i) : i \in I64_MIN..I64_MAX}
        \cup {NumberMatcher(F64(h)) : h \in {h \in F64Halves : h >= 0}}
NumValues ==
    {PosInt(n) : n \in 0..U64_MAX} \cup {NegInt(n) : n \in I64_MIN..(0 - 1)}
        \cup {Float(F64(h)) : h \in {h \in F64Halves : h >= 0}}

\* JSON values used as matchers, against JSON values: one level of arrays and
\* objects over scalars of every kind, and narrow values nested two deep
LitLeaves == {Null, Bool(TRUE), PosInt(1), PosInt(I64_MAX + 1), Float(F64(2)), String("x")}
LitValues ==
    ValueTrees(1, LitLeaves, {"a", "b"}, 2)
        \cup ValueTrees(2, {PosInt(1), Float(F64(2))}, {"a"}, 1)

\* Rust values used as matchers
RustMatchers ==
    {Unit, RustBool(TRUE), RustBool(FALSE), RustInt(1), RustInt(0 - 1),
     RustFloat(F64(2)), RustStr("x"), RustStr(""),
     RustVec(<<>>), RustVec(<<RustInt(1)>>), RustVec(<<RustStr("x"), Unit>>),
     RustVec(<<RustVec(<<RustBool(TRUE), RustFloat(F64(3))>>)>>)}
RustValues ==
    LeafValues \cup ValueTrees(2, {PosInt(1), String("x")}, {"a"}, 2)
        \cup {Array(<<Array(<<Bool(TRUE), Float(F64(3))>>)>>),
              Array(<<String("x"), Null>>)}

\* object matchers and objects over many keys: several missing, unexpected and
\* shared keys at once
KeyMatchers == ObjectMatchersOver({StrMatcher("x")}, ManyKeys)
KeyValues == ObjectsOver({String("y")}, ManyKeys)

(***************************************************************************)
(* The state machine: a matcher tree and a candidate are given, and        *)
(* json_matches runs once.                                                 *)
(***************************************************************************)
Init ==
    /\ \/ tree \in SlotMatchers /\ candidate \in SlotValues
       \/ tree \in WideMatchers /\ candidate \in WideValues
       \/ tree \in MidMatchers /\ candidate \in MidValues
       \/ tree \in DeepMatchers /\ candidate \in DeepValues
       \/ tree \in LenMatchers /\ candidate \in LenValues
       \/ tree \in KeyMatchers /\ candidate \in KeyValues
       \/ tree \in NumMatchers /\ candidate \in NumValues
       \/ tree \in LitValues /\ candidate \in LitValues
       \/ tree \in RustMatchers /\ candidate \in RustValues
    /\ errors = <<>>
    /\ calls = <<>>
    /\ pc = "built"
    /\ threads = <<>>
    /\ buffers = <<>>
    /\ panicking = <<>>
    /\ now = 0
    /\ chain = <<>>
    /\ expected = <<>>
    /\ stack = <<>>

\* tree.json_matches(&candidate), under one iteration order of the hash sets
Match ==
    /\ pc = "built"
    /\ \E h \in HashOrders(KeysOf(tree, candidate)) :
          LET r == Invoke(tree, candidate, h)
          IN  /\ errors' = r.errors
              /\ calls' = r.calls
              /\ pc' = IF r.panicked THEN "panicked" ELSE "matched"
    /\ UNCHANGED <<tree, candidate, threads, buffers, panicking, now, chain, expected, stack>>

Next == Match

Spec == Init /\ [][Next]_vars

(***************************************************************************)
(* Repeated matching: json_matches takes &self and &Value, so the same     *)
(* tree can be matched against the same candidate again; each call sees    *)
(* its own iteration order of the hash sets.                               *)
(***************************************************************************)
Rematch ==
    /\ pc \in {"matched", "rematched"}
    /\ \E h \in HashOrders(KeysOf(tree, candidate)) :
          LET r == Invoke(tree, candidate, h)
          IN  /\ errors' = r.errors
              /\ calls' = r.calls
              /\ pc' = IF r.panicked THEN "panicked" ELSE "rematched"
    /\ UNCHANGED <<tree, candidate, threads, buffers, panicking, now, chain, expected, stack>>

InitRepeat ==
    /\ \/ tree \in MidMatchers /\ candidate \in MidValues
       \/ tree \in KeyMatchers /\ candidate \in KeyValues
       \/ /\ tree \in ObjectsOver({PosInt(1), String("x")}, Keys)
          /\ candidate \in ObjectsOver({Float(F64(2)), String("x")}, Keys)
    /\ errors = <<>>
    /\ calls = <<>>
    /\ pc = "built"
    /\ threads = <<>>
    /\ buffers = <<>>
    /\ panicking = <<>>
    /\ now = 0
    /\ chain = <<>>
    /\ expected = <<>>
    /\ stack = <<>>

NextRepeat == Match \/ Rematch

SpecRepeat == InitRepeat /\ [][NextRepeat]_vars

(***************************************************************************)
(* Concurrent matching.  Several threads call json_matches on one shared   *)
(* tree, each with its own candidate.  A call owns its `errors` vector     *)
(* (`let mut errors = vec![]`); it reads the tree and its candidate and    *)
(* pushes to that vector, one dyn json_matches invocation at a time, in    *)
(* the order of the calls.  The shared trees are the ones the compiler     *)
(* lets threads share: values and primitive matchers (ArrayMatcher and     *)
(* ObjectMatcher hold Box<dyn JsonMatcher>, which is not Sync).            *)
(***************************************************************************)
NumThreads == 2
Threads == 1..NumThreads

SharedTrees ==
    {Array(<<PosInt(1), Object([k \in {"a", "b"} |-> String("x")])>>),
     Object([k \in {"a", "b"} |->
                IF k = "a" THEN Array(<<Float(F64(2))>>) ELSE Bool(TRUE)]),
     IntegerMatcher(1)}
ThreadValues ==
    {Array(<<PosInt(2), Object([k \in {"a"} |-> String("y")])>>),
     Array(<<PosInt(1), Object([k \in {"a", "b"} |-> String("x")])>>),
     Object([k \in {"a"} |-> Array(<<PosInt(1), Null>>)])}

idle == [pc |-> "idle"]

\* every call pushes to one vector shared by all calls
buffer_of_shared(t) == 1

\* the vector a call pushes to: its own local `errors`
buffer_of(t) == t

\* the json_matches invocations the call of thread t makes, in order
work(t) == Invoke(tree, threads[t].candidate, threads[t].h).calls

\* the errors one invocation pushes itself, at the path of the invocation
pushed(call, h) ==
    LET own == SelectSeq(Invoke(call.matcher, call.value, h).errors,
                         LAMBDA err : err.path = JsonPath_default)
    IN  [i \in DOMAIN own |-> JsonMatcherError(call.path, own[i].message)]

\* thread t calls tree.json_matches(&candidate)
Enter(t) ==
    /\ threads[t].pc = "idle"
    /\ \E c \in ThreadValues :
          \E h \in HashOrders(KeysOf(tree, c)) :
              threads' = [threads EXCEPT ![t] =
                             [pc |-> "running", candidate |-> c, h |-> h, pos |-> 0]]
    /\ UNCHANGED <<tree, candidate, errors, calls, pc, buffers, panicking, now, chain, expected, stack>>

\* thread t runs its next invocation
Visit(t) ==
    /\ threads[t].pc = "running"
    /\ threads[t].pos < Len(work(t))
    /\ buffers' = [buffers EXCEPT ![buffer_of(t)] =
                      @ \o pushed(work(t)[threads[t].pos + 1], threads[t].h)]
    /\ threads' = [threads EXCEPT ![t].pos = @ + 1]
    /\ UNCHANGED <<tree, candidate, errors, calls, pc, panicking, now, chain, expected, stack>>

\* the call of thread t returns its vector
Return(t) ==
    /\ threads[t].pc = "running"
    /\ threads[t].pos = Len(work(t))
    /\ threads' = [threads EXCEPT ![t] =
                      [pc |-> "returned", candidate |-> threads[t].candidate,
                       h |-> threads[t].h, result |-> buffers[buffer_of(t)]]]
    /\ UNCHANGED <<tree, candidate, errors, calls, pc, buffers, panicking, now, chain, expected, stack>>

InitShared ==
    /\ tree \in SharedTrees
    /\ candidate = Null
    /\ errors = <<>>
    /\ calls = <<>>
    /\ pc = "shared"
    /\ threads = [t \in Threads |-> idle]
    /\ buffers = [t \in Threads |-> <<>>]
    /\ panicking = <<>>
    /\ now = 0
    /\ chain = <<>>
    /\ expected = <<>>
    /\ stack = <<>>

NextShared == \E t \in Threads : Enter(t) \/ Visit(t) \/ Return(t)

SpecShared == InitShared /\ [][NextShared]_vars

(***************************************************************************)
(* One call, step by step.  json_matches recurses through the dyn calls of *)
(* the element loop (array.rs line 61) and the field loop (object.rs line  *)
(* 59).  Here the recursion is a stack of frames: a frame holds the matcher *)
(* and the value of one invocation, its own `errors` vector and the part   *)
(* of its loop still to run.  An invocation first pushes the errors of its *)
(* own level, then calls each child in loop order, and hands its vector to *)
(* its caller, which re-roots it.                                          *)
(***************************************************************************)
\* the ArrayMatcherRefs / ObjectMatcherRefs a composite delegates to
Refs(self) ==
    CASE self.t = "Vec"    -> ArrayMatcherRefs_new(self.elements)
      [] self.t = "Array"  -> ArrayMatcherRefs_new(self.a)
      [] self.t = "Object" -> Value_object_matcher(self.m)
      [] OTHER -> self

\* the errors an invocation pushes before its loop
own_errors(self, value, h) ==
    CASE Refs(self).t = "ArrayMatcher" /\ value.t = "Array" ->
            missing_indexes_errors(Len(value.a), Len(Refs(self).elements))
            \o unexpected_indexes_errors(Len(value.a), Len(Refs(self).elements))
      [] Refs(self).t = "ObjectMatcher" /\ value.t = "Object" ->
            missing_keys_errors(DOMAIN Refs(self).fields, DOMAIN value.m, h)
            \o unexpected_keys_errors(Refs(self).allow_unexpected_keys,
                                      DOMAIN Refs(self).fields, DOMAIN value.m, h)
      [] OTHER -> json_matches(self, value, h)

\* the path elements the loop of an invocation visits, in loop order
loop_elements(self, value, h) ==
    CASE Refs(self).t = "ArrayMatcher" /\ value.t = "Array" ->
            [i \in 1..expected_and_present_indexes(Len(value.a),
                                                   Len(Refs(self).elements)) |->
                Index(i - 1)]
      [] Refs(self).t = "ObjectMatcher" /\ value.t = "Object" ->
            LET keys == expected_and_present(DOMAIN Refs(self).fields,
                                             DOMAIN value.m, h)
            IN  [i \in DOMAIN keys |-> Key(keys[i])]
      [] OTHER -> <<>>

\* the frame of the invocation of self on value, made at path element `element`
frame(element, self, value, h) ==
    [element |-> element, matcher |-> self, value |-> value, h |-> h,
     errors |-> own_errors(self, value, h),
     todo |-> loop_elements(self, value, h)]

\* &self.elements[index] / self.fields.get(key)
child_matcher(self, element) ==
    IF element.e = "Index" THEN vec_index(Refs(self).elements, element.index)
    ELSE map_get(Refs(self).fields, element.key)

\* a lookup that hands the loop the whole array or object instead of its child
child_value_whole(value, element) == Some(value)

\* array.get(index) / map.get(key)
child_value(value, element) ==
    IF element.e = "Index" THEN slice_get(value.a, element.index)
    ELSE map_get(value.m, element.key)

\* the path of the invocation of the k-th frame
frame_path(k) == [i \in 1..k |-> stack[i].element]

\* tree.json_matches(&candidate) is called
Begin ==
    /\ pc = "built"
    /\ \E h \in HashOrders(KeysOf(tree, candidate)) :
          stack' = <<frame(Root, tree, candidate, h)>>
    /\ calls' = <<Call(JsonPath_default, tree, candidate)>>
    /\ pc' = "running"
    /\ UNCHANGED <<tree, candidate, errors, threads, buffers, panicking, now, chain, expected>>

\* the loop of the innermost invocation calls its next child
Descend ==
    /\ pc = "running"
    /\ stack[Len(stack)].todo # <<>>
    /\ LET top == stack[Len(stack)]
           element == Head(top.todo)
           matcher == child_matcher(top.matcher, element)
           value == child_value(top.value, element)
       IN  IF ~matcher.some \/ ~value.some
           THEN /\ pc' = "panicked"
                /\ UNCHANGED <<stack, calls>>
           ELSE /\ stack' = [stack EXCEPT ![Len(stack)].todo = Tail(@)]
                            \o <<frame(element, unwrap(matcher), unwrap(value), top.h)>>
                /\ calls' = Append(calls, Call(frame_path(Len(stack)) \o <<element>>,
                                               unwrap(matcher), unwrap(value)))
                /\ pc' = pc
    /\ UNCHANGED <<tree, candidate, errors, threads, buffers, panicking, now, chain, expected>>

\* the innermost invocation returns its vector; its caller re-roots it
Ascend ==
    /\ pc = "running"
    /\ stack[Len(stack)].todo = <<>>
    /\ LET top == stack[Len(stack)]
       IN  IF Len(stack) = 1
           THEN /\ errors' = top.errors
                /\ stack' = <<>>
                /\ pc' = "matched"
           ELSE /\ stack' = [SubSeq(stack, 1, Len(stack) - 1)
                                EXCEPT ![Len(stack) - 1].errors =
                                    @ \o reroot_all(top.element, top.errors)]
                /\ UNCHANGED <<errors, pc>>
    /\ UNCHANGED <<tree, candidate, calls, threads, buffers, panicking, now, chain, expected>>

StepMatchers ==
    MatcherTrees(MaxDepth - 1, {IntegerMatcher(1)}, {"a"}, 1)
    \cup MatcherTrees(1, {StrMatcher("x")}, {"a", "b"}, 2)
    \cup ValueTrees(1, {PosInt(1)}, {"a"}, 2)
StepValues ==
    ValueTrees(MaxDepth - 1, {PosInt(1)}, {"a"}, 1)
    \cup ValueTrees(1, {String("x"), PosInt(2)}, {"a", "b"}, 2)

InitSteps ==
    /\ tree \in StepMatchers
    /\ candidate \in StepValues
    /\ errors = <<>>
    /\ calls = <<>>
    /\ pc = "built"
    /\ threads = <<>>
    /\ buffers = <<>>
    /\ panicking = <<>>
    /\ now = 0
    /\ chain = <<>>
    /\ expected = <<>>
    /\ stack = <<>>

NextSteps == Begin \/ Descend \/ Ascend

\* the thread that made the call keeps running
SpecSteps == InitSteps /\ [][NextSteps]_vars /\ WF_vars(NextSteps)

(***************************************************************************)
(* The builders and the macros (src/macros.rs).  The second argument of    *)
(* assert_jm! is a token tree: null, true, false, a literal, [items],      *)
(* {"key": value, ...} or a Rust expression that is a matcher.             *)
(* create_json_matcher! turns it into a matcher with the builder calls     *)
(* ArrayMatcher::new().element(..) and ObjectMatcher::new().field(..).     *)
(***************************************************************************)
ArrayMatcher_new == ArrayMatcher_of(<<>>)
ObjectMatcher_new == ObjectMatcher_of([k \in {} |-> NullMatcher])

\* self.elements.push(Box::new(value))
element(self, value) == [self EXCEPT !.elements = Append(@, value)]

\* an insert that keeps the matcher already stored under the key
field_keeping_first(self, key, value) ==
    [self EXCEPT !.fields =
        [k \in DOMAIN @ \cup {key} |-> IF k \in DOMAIN @ THEN @[k] ELSE value]]

\* self.fields.insert(key.to_string(), Box::new(value))
field(self, key, value) ==
    [self EXCEPT !.fields =
        [k \in DOMAIN @ \cup {key} |-> IF k = key THEN value ELSE @[k]]]

tt_null == [k |-> "null"]
tt_true == [k |-> "true"]
tt_false == [k |-> "false"]
tt_literal(literal) == [k |-> "literal", literal |-> literal]
tt_array(items) == [k |-> "array", items |-> items]
tt_object(entries) == [k |-> "object", entries |-> entries]
tt_expr(matcher) == [k |-> "expr", matcher |-> matcher]

\* serde_json::json!($num) of a number or string literal
json(literal) ==
    CASE literal.t = "i64" ->
            IF literal.value < 0 THEN NegInt(literal.value) ELSE PosInt(literal.value)
      [] literal.t = "f64" -> Float(literal.value)
      [] literal.t = "&str" -> String(literal.value)

RECURSIVE create_json_matcher(_)
RECURSIVE array_rule(_, _)
RECURSIVE object_rules(_, _)

\* ([ $($item:tt),* ]) : ArrayMatcher::new() $(.element(create_json_matcher!($item)))*
array_rule(out, items) ==
    IF items = <<>> THEN out
    ELSE array_rule(element(out, create_json_matcher(Head(items))), Tail(items))

\* (@object {$($out)*} $key : value , $($rest)*) : one .field(..) per entry
object_rules(out, rest) ==
    IF rest = <<>> THEN out
    ELSE object_rules(field(out, Head(rest)[1], create_json_matcher(Head(rest)[2])),
                      Tail(rest))

\* macro_rules! create_json_matcher, its rules in their order
create_json_matcher(tt) ==
    CASE tt.k = "null"    -> NullMatcher
      [] tt.k = "true"    -> BooleanMatcher_exact(TRUE)
      [] tt.k = "false"   -> BooleanMatcher_exact(FALSE)
      [] tt.k = "literal" -> json(tt.literal)
      [] tt.k = "array"   -> array_rule(ArrayMatcher_new, tt.items)
      [] tt.k = "object"  -> object_rules(ObjectMatcher_new, tt.entries)
      [] tt.k = "expr"    -> tt.matcher

\* serde_json's escaping inside a JSON string
RECURSIVE escape(_)
escape(s) ==
    IF s = "" THEN ""
    ELSE LET c == SubSeq(s, 1, 1)
         IN  (CASE c = "\"" -> "\\\""
                [] c = "\\" -> "\\\\"
                [] OTHER -> c) \o escape(SubSeq(s, 2, Len(s)))

\* serde_json::to_string_pretty: PrettyFormatter with two-space indentation;
\* the keys of an object come in the order the map holds them
RECURSIVE pretty(_, _, _)
pretty(v, indent, order) ==
    CASE v.t = "Null"   -> "null"
      [] v.t = "Bool"   -> FmtBool(v.b)
      [] v.t = "Number" -> FmtNumber(v)
      [] v.t = "String" -> "\"" \o escape(v.s) \o "\""
      [] v.t = "Array"  ->
            IF v.a = <<>> THEN "[]"
            ELSE "[\n"
                 \o join([i \in DOMAIN v.a |->
                             indent \o "  " \o pretty(v.a[i], indent \o "  ", order)],
                         ",\n")
                 \o "\n" \o indent \o "]"
      [] v.t = "Object" ->
            LET keys == iter(DOMAIN v.m, order)
            IN  IF keys = <<>> THEN "{}"
                ELSE "{\n"
                     \o join([i \in DOMAIN keys |->
                                 indent \o "  \"" \o escape(keys[i]) \o "\": "
                                 \o pretty(v.m[keys[i]], indent \o "  ", order)],
                             ",\n")
                     \o "\n" \o indent \o "}"

to_string_pretty(value, order) == pretty(value, "", order)

\* bullets that list the first error only
bullets_first_only(errs) == <<"  - " \o FmtError(errs[1])>>

\* errors.into_iter().map(|e| format!("  - {}", e)).collect::<Vec<String>>()
bullets(errs) == [i \in DOMAIN errs |-> "  - " \o FmtError(errs[i])]

\* panic!("{}\n\n{}", error_message, actual_message)
panic_message(errs, actual, order) ==
    ("\nJson matcher failed:\n" \o join(bullets(errs), "\n"))
    \o "\n\n"
    \o ("Actual:\n" \o to_string_pretty(actual, order))

\* the arm of macro_rules! assert_jm that the tokens match, the arms being
\* tried in their order (true and false are literals)
assert_jm_arm(tt) ==
    CASE tt.k = "object" -> 1
      [] tt.k = "array" -> 2
      [] tt.k \in {"literal", "true", "false"} -> 3
      [] tt.k = "null" -> 4
      [] tt.k = "expr" -> 7

\* let expectation = ... of the arm
expectation_of(tt) ==
    IF assert_jm_arm(tt) = 7 THEN tt.matcher ELSE create_json_matcher(tt)

\* assert_jm!(candidate, expected)
assert_jm ==
    /\ pc = "written"
    /\ \E h \in HashOrders(KeysOf(expectation_of(expected), candidate)),
          order \in HashOrders(KeysOfValue(candidate)) :
          LET r == Invoke(expectation_of(expected), candidate, h)
          IN  /\ tree' = expectation_of(expected)
              /\ errors' = r.errors
              /\ calls' = r.calls
              /\ IF ~r.panicked /\ r.errors = <<>>
                 THEN pc' = "returned" /\ panicking' = None
                 ELSE /\ pc' = "panicked"
                      /\ panicking' =
                            IF r.panicked THEN None
                            ELSE Some(panic_message(r.errors, candidate, order))
    /\ UNCHANGED <<candidate, threads, buffers, now, chain, expected, stack>>

LeafTokens ==
    {tt_null, tt_true, tt_literal(RustInt(1)), tt_literal(RustStr("x")),
     tt_expr(IntegerMatcher(2))}
AssertTokens ==
    LeafTokens
    \cup {tt_false, tt_literal(RustFloat(F64(3))), tt_literal(RustInt(0 - 1)),
          tt_expr(Object([k \in {"a"} |-> PosInt(1)])),
          tt_expr(allow_unexpected_keys(ObjectMatcher_new)),
          tt_object(<<<<"a", tt_object(<<<<"b", tt_literal(RustInt(1))>>>>)>>>>),
          tt_object(<<<<"a", tt_array(<<tt_literal(RustInt(1)), tt_null>>)>>>>),
          tt_array(<<tt_object(<<<<"a", tt_true>>>>), tt_array(<<>>)>>)}
    \cup {tt_array(items) : items \in UNION {[1..n -> LeafTokens] : n \in 0..2}}
    \cup {tt_object(entries) :
             entries \in UNION {[1..n -> {"a", "b"} \X LeafTokens] : n \in 0..2}}
AssertValues ==
    ValueTrees(1, {Null, PosInt(1), String("x")}, {"a", "b"}, 2)
    \cup {String("say \"x\""), Float(F64(3)), NegInt(0 - 1), Bool(TRUE),
          Object([k \in {"a"} |-> Object([j \in {"b"} |-> PosInt(2)])]),
          Object([k \in {"a"} |-> Array(<<PosInt(1), Bool(FALSE)>>)]),
          Array(<<Object([k \in {"a"} |-> Bool(FALSE)]), Array(<<>>)>>)}

unbuilt == [t |-> "unbuilt"]

InitAssert ==
    /\ expected \in AssertTokens
    /\ candidate \in AssertValues
    /\ tree = unbuilt
    /\ errors = <<>>
    /\ calls = <<>>
    /\ pc = "written"
    /\ threads = <<>>
    /\ buffers = <<>>
    /\ panicking = None
    /\ now = 0
    /\ chain = <<>>
    /\ stack = <<>>

NextAssert == assert_jm

SpecAssert == InitAssert /\ [][NextAssert]_vars

(***************************************************************************)
(* The matchers of any.rs, uuid_matcher.rs, u16_matcher.rs and datetime.rs *)
(* each matched once against the candidates that tell their cases apart.   *)
(***************************************************************************)
AnyMatchers ==
    {AnyMatcher_new, AnyMatcher_not_null,
     field(ObjectMatcher_new, "a", AnyMatcher_not_null),
     element(element(ArrayMatcher_new, AnyMatcher_new), AnyMatcher_not_null)}
AnyValues ==
    SlotValues
    \cup {PosInt(0), String(""), Array(<<>>), Array(<<Null, Null>>),
          Array(<<Null, Object([k \in {"a"} |-> Null])>>),
          Object([k \in {"a"} |-> Array(<<PosInt(1), Null>>)]),
          Array(<<Array(<<Null>>), PosInt(0)>>)}

UuidValues ==
    {String("550e8400-e29b-41d4-a716-446655440000"),
     String("----550e8400e29b41d4a716446655440000"),
     String("550e8400e29b-41d4-a716-4466554400000"),
     String("550e-8400-e29b-41d4-a716-44665544000"),
     String("550e8400-e29b-41d4-a716-44665544000"),
     String("550e8400-e29b-41d4-a716-4466554400000"),
     String("é50e8400-e29b-41d4-a716-446655440000"),
     String("é50e8400-e29b-41d4-a716-44665544000"),
     String("€50e8400-e29b-41d4-a716-4466554400"),
     String("----"), String("bloop"), String(""),
     Null, Bool(TRUE), PosInt(36), Float(F64(8)),
     Array(<<String("550e8400-e29b-41d4-a716-446655440000")>>),
     Object([k \in {"a"} |-> String("550e8400-e29b-41d4-a716-446655440000")])}

U16Matchers == {U16Matcher_new, U16Matcher_new_allow_strings}
U16Values ==
    {PosInt(i) : i \in 0..U64_MAX}
    \cup {NegInt(i) : i \in I64_MIN..(0 - 1)}
    \cup {Float(F64(h)) : h \in {0, 2, 5, 2 * U16_MAX, 2 * U16_MAX + 2}}
    \cup {String(s) : s \in {"", "0", "1", "3", "4", "9", "03", "003", "000", "10",
                             "30", " 3 ", "3 ", "2.5", "3.0", "-1", "-0", "+3",
                             "+0", "+03", "+4", "+", "-", "++3", "+-3", "3+",
                             "x", "0x1", "3e0"}}
    \cup {Null, Bool(TRUE), Bool(FALSE), Array(<<PosInt(1)>>), Array(<<String("1")>>),
          Object([k \in {"a"} |-> PosInt(1)])}

\* 2024-01-05T10:00:00Z and 2024-01-05T11:00:00Z
LowerBound == DateTime(1704448800, 0, 0)
UpperBound == DateTime(1704452400, 0, 0)

DateTimeMatchers ==
    {DateTimeStringMatcher(lower, li, upper, ui) :
        lower \in {None, Some(LowerBound)}, li \in BOOLEAN,
        upper \in {None, Some(UpperBound)}, ui \in BOOLEAN}
DateTimeValues ==
    {String(s) : s \in {"2024-01-05T10:00:00Z", "2024-01-05T10:30:00Z",
                        "2024-01-05T11:00:00Z", "2024-01-05T09:59:59Z",
                        "2024-01-05T11:00:01Z", "2024-01-05T11:00:00.5Z",
                        "2024-01-05T09:59:59.999Z", "2024-01-05T10:30:00",
                        "2024-01-05t10:30:00z", "2024-01-05 10:30:00Z",
                        "2024-01-05T10:30:00+00:00", "2024-01-05T10:30:00-00:00",
                        "2024-01-05T11:00:01-08:00", "2024-01-05T18:30:00+08:00",
                        "2024-01-05T02:30:00-08:00", "2024-01-05T10:30:00+01:00",
                        "2024-01-06T10:30:00+01:00", "2024-01-04T10:30:00-01:00",
                        "bloop", "", "2024-22-05T10:00:00Z", "2024-02-30T10:30:00Z",
                        "2024-01-05T10:30:00Zx", "2024-01-05T10:30", "2024-01-05",
                        "2024-01-05T10:30:00+01", "2024-01-05T10:30:00.Z",
                        "1704450600"}}
    \cup {Null, Bool(TRUE), PosInt(2), Float(F64(3)),
          Array(<<String("2024-01-05T10:30:00Z")>>),
          Object([k \in {"a"} |-> String("2024-01-05T10:30:00Z")])}

InitExtra ==
    /\ \/ tree \in AnyMatchers /\ candidate \in AnyValues
       \/ tree = UuidMatcher_new /\ candidate \in UuidValues
       \/ tree \in U16Matchers /\ candidate \in U16Values
    /\ errors = <<>>
    /\ calls = <<>>
    /\ pc = "built"
    /\ threads = <<>>
    /\ buffers = <<>>
    /\ panicking = <<>>
    /\ now = 0
    /\ chain = <<>>
    /\ expected = <<>>
    /\ stack = <<>>

SpecExtra == InitExtra /\ [][Next]_vars

(***************************************************************************)
(* The datetime feature: src/datetime.rs is compiled only with the cargo   *)
(* feature "datetime".  DateTimeStringMatcher is a leaf, it invokes no     *)
(* other matcher; its json_matches is an action of its own.                *)
(***************************************************************************)
MatchDateTime ==
    /\ pc = "built"
    /\ tree.t = "DateTimeStringMatcher"
    /\ errors' = DateTimeStringMatcher_json_matches(tree, candidate)
    /\ calls' = <<Call(JsonPath_default, tree, candidate)>>
    /\ pc' = "matched"
    /\ UNCHANGED <<tree, candidate, threads, buffers, panicking, now, chain,
                   expected, stack>>

InitDateTime ==
    /\ tree \in DateTimeMatchers
    /\ candidate \in DateTimeValues
    /\ errors = <<>>
    /\ calls = <<>>
    /\ pc = "built"
    /\ threads = <<>>
    /\ buffers = <<>>
    /\ panicking = <<>>
    /\ now = 0
    /\ chain = <<>>
    /\ expected = <<>>
    /\ stack = <<>>

SpecDateTime == InitDateTime /\ [][MatchDateTime]_vars

(***************************************************************************)
(* The clock: DateTimeStringMatcher::recent_utc reads Utc::now() once for  *)
(* each bound, the lower bound first, and time passes between any two      *)
(* steps of the program.  The clock is taken to run forward.  'chain'      *)
(* holds the readings of the construction under way or last done.          *)
(***************************************************************************)
ClockStart == DateTime(1704448800, 0, 0)    \* 2024-01-05T10:00:00Z

MaxMinutes == 1     \* whole minutes the clock runs for
MaxHalves == 2      \* half seconds the clock shows after a whole minute

\* datetime - Duration::seconds(seconds)
minus(datetime, seconds) ==
    DateTime(datetime.secs - seconds, datetime.millis, datetime.offset)

plus_millis(datetime, ms) ==
    LET total == datetime.millis + ms
    IN  DateTime(datetime.secs + total \div 1000, total % 1000, datetime.offset)

\* the instants at which the program looks at the clock or takes a step
Instants ==
    {plus_millis(minus(ClockStart, 0 - 60 * m), 500 * h) :
        m \in 0..MaxMinutes, h \in 0..MaxHalves}

Later(a, b) == a.secs > b.secs \/ (a.secs = b.secs /\ a.millis > b.millis)

\* time passes
Tick ==
    /\ now' \in {instant \in Instants : Later(instant, now)}
    /\ UNCHANGED <<tree, candidate, errors, calls, pc, threads, buffers,
                   panicking, chain, expected, stack>>

\* lower_bound: Some(Utc::now() - Duration::minutes(1))
recent_utc_lower ==
    /\ pc \in {"written", "matched"}
    /\ chain' = <<now>>
    /\ pc' = "reading"
    /\ UNCHANGED <<tree, candidate, errors, calls, threads, buffers,
                   panicking, now, expected, stack>>

\* upper_bound: Some(Utc::now()), and the matcher is returned
recent_utc_upper ==
    /\ pc = "reading"
    /\ tree' = DateTimeStringMatcher(Some(minus(chain[1], 60)), TRUE, Some(now), TRUE)
    /\ chain' = Append(chain, now)
    /\ pc' = "built"
    /\ UNCHANGED <<candidate, errors, calls, threads, buffers,
                   panicking, now, expected, stack>>

ClockValues ==
    {String(s) : s \in {"2024-01-05T09:58:59Z", "2024-01-05T09:59:00Z",
                        "2024-01-05T09:59:00.500Z", "2024-01-05T09:59:30Z",
                        "2024-01-05T10:00:00Z", "2024-01-05T10:00:00.500Z",
                        "2024-01-05T10:00:01Z", "2024-01-05T10:00:30",
                        "2024-01-05T10:01:00Z", "2024-01-05T10:01:00.500Z",
                        "2024-01-05T10:01:02Z", "2024-01-05T11:00:00+01:00"}}

InitClock ==
    /\ tree = unbuilt
    /\ candidate \in ClockValues
    /\ errors = <<>>
    /\ calls = <<>>
    /\ pc = "written"
    /\ threads = <<>>
    /\ buffers = <<>>
    /\ panicking = <<>>
    /\ now = ClockStart
    /\ chain = <<>>
    /\ expected = <<>>
    /\ stack = <<>>

NextClock == Tick \/ recent_utc_lower \/ recent_utc_upper \/ MatchDateTime

SpecClock == InitClock /\ [][NextClock]_vars

(***************************************************************************)
(* Rendering: Display for JsonPath applied to two paths.  'chain' holds    *)
(* the two paths and 'buffers' the two texts written.                      *)
(***************************************************************************)
MaxSegments == 2    \* segments after Root

Segments == {Index(0), Key("0"), Key("a"), Key("b"), Key("a.b"), Key("$")}

\* the paths of errors: Root, then the locators from the outermost inwards
Paths ==
    {<<Root>> \o tail : tail \in UNION {[1..n -> Segments] : n \in 0..MaxSegments}}

\* format!("{}", path) for both
fmt ==
    /\ pc = "written"
    /\ buffers' = <<FmtPath(chain[1]), FmtPath(chain[2])>>
    /\ pc' = "rendered"
    /\ UNCHANGED <<tree, candidate, errors, calls, threads, panicking, now,
                   chain, expected, stack>>

InitPaths ==
    /\ chain \in Paths \X Paths
    /\ buffers = <<>>
    /\ tree = unbuilt
    /\ candidate = Null
    /\ errors = <<>>
    /\ calls = <<>>
    /\ pc = "written"
    /\ threads = <<>>
    /\ panicking = <<>>
    /\ now = 0
    /\ expected = <<>>
    /\ stack = <<>>

NextPaths == fmt

SpecPaths == InitPaths /\ [][NextPaths]_vars

(***************************************************************************)
(* Building: ObjectMatcher::new() followed by a chain of field(..) and     *)
(* allow_unexpected_keys() calls, then json_matches.  'chain' holds the    *)
(* calls made so far.                                                      *)
(***************************************************************************)
MaxCalls == 3       \* builder calls of one chain

BuildKeys == {"a", "b"}
BuildMatchers == {IntegerMatcher(1), StrMatcher("x")}
BuildValues ==
    ObjectsOver({PosInt(1), String("x")}, {"a", "b", "ab"}) \cup {Null}

field_call(key, value) == [op |-> "field", key |-> key, value |-> value]
allow_unexpected_keys_call == [op |-> "allow_unexpected_keys"]

\* .field(key, value)
call_field ==
    /\ pc = "building"
    /\ Len(chain) < MaxCalls
    /\ \E key \in BuildKeys, value \in BuildMatchers :
          /\ tree' = field(tree, key, value)
          /\ chain' = Append(chain, field_call(key, value))
    /\ UNCHANGED <<candidate, errors, calls, pc, threads, buffers, panicking,
                   now, expected, stack>>

\* .allow_unexpected_keys()
call_allow_unexpected_keys ==
    /\ pc = "building"
    /\ Len(chain) < MaxCalls
    /\ tree' = allow_unexpected_keys(tree)
    /\ chain' = Append(chain, allow_unexpected_keys_call)
    /\ UNCHANGED <<candidate, errors, calls, pc, threads, buffers, panicking,
                   now, expected, stack>>

\* the end of the chain: the matcher is bound and used from here on
bind ==
    /\ pc = "building"
    /\ pc' = "built"
    /\ UNCHANGED <<tree, candidate, errors, calls, threads, buffers, panicking,
                   now, chain, expected, stack>>

InitBuild ==
    /\ tree = ObjectMatcher_new
    /\ candidate \in BuildValues
    /\ errors = <<>>
    /\ calls = <<>>
    /\ pc = "building"
    /\ threads = <<>>
    /\ buffers = <<>>
    /\ panicking = <<>>
    /\ now = 0
    /\ chain = <<>>
    /\ expected = <<>>
    /\ stack = <<>>

NextBuild == call_field \/ call_allow_unexpected_keys \/ bind \/ Match

SpecBuild == InitBuild /\ [][NextBuild]_vars

(***************************************************************************)
(* Nesting of permissive and strict objects: a matcher is written as an    *)
(* expression (ObjectMatcher::of(..), with or without                      *)
(* .allow_unexpected_keys(), ArrayMatcher::of(..), or any other matcher,   *)
(* a serde_json Value among them), built, and json_matches runs.           *)
(* 'expected' holds the expression.                                        *)
(***************************************************************************)
MaxNesting == 2     \* composites of an expression, one inside the other

expr_matcher(matcher) == [k |-> "matcher", matcher |-> matcher]
expr_object(permissive, fields) ==
    [k |-> "object", permissive |-> permissive, fields |-> fields]
expr_array(elements) == [k |-> "array", elements |-> elements]

\* the value of an expression
RECURSIVE eval(_)
eval(expr) ==
    CASE expr.k = "matcher" -> expr.matcher
      [] expr.k = "array" ->
            ArrayMatcher_of([i \in DOMAIN expr.elements |-> eval(expr.elements[i])])
      [] expr.k = "object" ->
            LET strict == ObjectMatcher_of([key \in DOMAIN expr.fields |->
                                               eval(expr.fields[key])])
            IN  IF expr.permissive THEN allow_unexpected_keys(strict) ELSE strict

RECURSIVE ScopeExprs(_)
ScopeExprs(d) ==
    IF d = 0
    THEN {expr_matcher(m) :
            m \in {IntegerMatcher(1),
                   Object([k \in {"a"} |-> PosInt(1)]),
                   Array(<<Object([k \in {"a"} |-> PosInt(1)])>>),
                   Object([k \in {"a"} |-> Object([j \in {"a"} |-> PosInt(1)])])}}
    ELSE LET below == ScopeExprs(d - 1)
         IN  below
             \cup {expr_object(p, [k \in {"a"} |-> c]) : p \in BOOLEAN, c \in below}
             \cup {expr_array(<<c>>) : c \in below}

RECURSIVE ScopeValues(_)
ScopeValues(d) ==
    IF d = 0 THEN {PosInt(1)}
    ELSE LET below == ScopeValues(d - 1)
         IN  below
             \cup {Object([k \in {"a"} |-> c]) : c \in below}
             \cup {Object([k \in {"a", "b"} |-> IF k = "a" THEN c ELSE PosInt(1)]) :
                      c \in below}
             \cup {Array(<<c>>) : c \in below}

\* let matcher = <expression>;
build ==
    /\ pc = "written"
    /\ tree' = eval(expected)
    /\ pc' = "built"
    /\ UNCHANGED <<candidate, errors, calls, threads, buffers, panicking, now,
                   chain, expected, stack>>

InitScope ==
    /\ expected \in ScopeExprs(MaxNesting)
    /\ candidate \in ScopeValues(MaxNesting + 1)
    /\ tree = unbuilt
    /\ errors = <<>>
    /\ calls = <<>>
    /\ pc = "written"
    /\ threads = <<>>
    /\ buffers = <<>>
    /\ panicking = <<>>
    /\ now = 0
    /\ chain = <<>>
    /\ stack = <<>>

NextScope == build \/ Match

SpecScope == InitScope /\ [][NextScope]_vars

(***************************************************************************)
(* Vocabulary of the properties                                            *)
(***************************************************************************)
Matched == pc = "matched"

IsComposite(m) == m.t \in {"ArrayMatcher", "ObjectMatcher"}

\* the children of a composite matcher, as a set
Children(m) ==
    CASE m.t = "ArrayMatcher"  -> {m.elements[i] : i \in DOMAIN m.elements}
      [] m.t = "ObjectMatcher" -> {m.fields[k] : k \in DOMAIN m.fields}
      [] m.t = "Vec"           -> {m.elements[i] : i \in DOMAIN m.elements}
      [] m.t = "Array"         -> {m.a[i] : i \in DOMAIN m.a}
      [] m.t = "Object"        -> {m.m[k] : k \in DOMAIN m.m}
      [] OTHER -> {}

\* the number of composite levels of a matcher tree
RECURSIVE Depth(_)
Depth(m) ==
    IF ~IsComposite(m) THEN 0
    ELSE LET ds == {Depth(c) : c \in Children(m)}
         IN  1 + (IF ds = {} THEN 0 ELSE CHOOSE d \in ds : \A e \in ds : e <= d)

\* does the matcher tree m have a node of type t
RECURSIVE HasNode(_, _)
HasNode(m, t) == m.t = t \/ \E c \in Children(m) : HasNode(c, t)

(***************************************************************************)
(* C1.  The reference definition of "the candidate satisfies the tree".    *)
(* `strict` selects the reading of the float matcher: TRUE is the claim's  *)
(* own (a float matcher is satisfied only by a float-stored number with    *)
(* its value), FALSE lets any JSON number whose value as an f64 is that    *)
(* value satisfy it.                                                       *)
(***************************************************************************)
IsIntegerStored(v) == v.t = "Number" /\ v.n \in {"PosInt", "NegInt"}
IsFloatStored(v) == v.t = "Number" /\ v.n = "Float"
\* the numeric value of a JSON number, in halves
NumericHalves(v) == IF v.n = "Float" THEN v.f.halves ELSE 2 * v.i
\* the f64 nearest to the value of a JSON number: the number itself when it is
\* float-stored or an integer that f64 holds
F64Of(v) ==
    IF v.n = "Float" THEN v.f
    ELSE LET below == {h \in F64Halves : h <= NumericHalves(v)}
             above == {h \in F64Halves : h >= NumericHalves(v)}
             lo == CHOOSE h \in below : \A g \in below : g <= h
             hi == CHOOSE h \in above : \A g \in above : h <= g
         IN  IF NumericHalves(v) - lo < hi - NumericHalves(v) THEN F64(lo)
             ELSE IF NumericHalves(v) - lo > hi - NumericHalves(v) THEN F64(hi)
             ELSE IF lo \in F64EvenHalves THEN F64(lo) ELSE F64(hi)

\* a tree of the library's matcher types only: no literal used as a matcher
RECURSIVE IsLibraryTree(_)
IsLibraryTree(m) ==
    /\ m.t \in {"NullMatcher", "BooleanMatcher", "IntegerMatcher", "NumberMatcher",
                "StrMatcher", "ArrayMatcher", "ObjectMatcher"}
    /\ \A c \in Children(m) : IsLibraryTree(c)

RECURSIVE Satisfies(_, _, _)
Satisfies(m, v, strict) ==
    CASE m.t = "NullMatcher" -> v.t = "Null"
      [] m.t = "BooleanMatcher" ->
            v.t = "Bool" /\ (m.variant = "Exact" => v.b = m.expected)
      [] m.t = "IntegerMatcher" -> IsIntegerStored(v) /\ v.i = m.value
      [] m.t = "NumberMatcher" ->
            IF strict THEN IsFloatStored(v) /\ v.f = m.number
            ELSE v.t = "Number" /\ F64Of(v) = m.number
      [] m.t = "StrMatcher" -> v.t = "String" /\ v.s = m.value
      [] m.t = "ArrayMatcher" ->
            /\ v.t = "Array"
            /\ Len(v.a) = Len(m.elements)
            /\ \A i \in DOMAIN m.elements : Satisfies(m.elements[i], v.a[i], strict)
      [] m.t = "ObjectMatcher" ->
            /\ v.t = "Object"
            /\ IF m.allow_unexpected_keys
               THEN DOMAIN m.fields \subseteq DOMAIN v.m
               ELSE DOMAIN m.fields = DOMAIN v.m
            /\ \A k \in DOMAIN m.fields : Satisfies(m.fields[k], v.m[k], strict)

\* C1 as stated: json_matches returns the empty vector exactly when the
\* candidate satisfies the tree, a float matcher being satisfied only by a
\* float value.  Violated: NumberMatcher(1.0) accepts the integer 1.
C1_AsStated ==
    (Matched /\ IsLibraryTree(tree)) =>
        (errors = <<>> <=> Satisfies(tree, candidate, TRUE))

\* C1 (amended): json_matches returns the empty vector exactly when the
\* candidate satisfies the tree, at every depth, where a float matcher is
\* satisfied by any JSON number, integer- or float-stored, whose value
\* converted to f64 equals its value.
C1_EmptyIffSatisfies ==
    (Matched /\ IsLibraryTree(tree)) =>
        (errors = <<>> <=> Satisfies(tree, candidate, FALSE))

\* a tree nested MaxDepth deep, with a float matcher at a leaf facing an
\* integer-stored number, has been matched and is satisfied
C1_Witness ==
    /\ Matched
    /\ errors = <<>>
    /\ Depth(tree) >= 3
    /\ HasNode(tree, "NumberMatcher")
    /\ \E i \in DOMAIN calls :
          calls[i].matcher.t = "NumberMatcher" /\ IsIntegerStored(calls[i].value)

(***************************************************************************)
(* C2.  Aggregation of the children's errors by a composite.               *)
(***************************************************************************)
\* the candidate has the JSON type the composite matcher m requires
RightType(m, v) ==
    \/ m.t = "ArrayMatcher" /\ v.t = "Array"
    \/ m.t = "ObjectMatcher" /\ v.t = "Object"

\* the path elements (Index or Key) present in both the matcher and the candidate
Shared(m, v) ==
    IF m.t = "ArrayMatcher"
    THEN {Index(i - 1) : i \in DOMAIN m.elements \cap DOMAIN v.a}
    ELSE {Key(k) : k \in DOMAIN m.fields \cap DOMAIN v.m}

ChildMatcher(m, e) == IF e.e = "Index" THEN m.elements[e.index + 1] ELSE m.fields[e.key]
ChildValue(v, e) == IF e.e = "Index" THEN v.a[e.index + 1] ELSE v.m[e.key]

\* the errors of errs located at or below the child e, in their order in errs
Under(errs, e) == SelectSeq(errs, LAMBDA err : Len(err.path) >= 2 /\ err.path[2] = e)
\* the errors of errs located at the node itself
AtNode(errs) == SelectSeq(errs, LAMBDA err : err.path = <<Root>>)

\* the number of errors of errs located at or below the children in S
RECURSIVE CountUnder(_, _)
CountUnder(errs, S) ==
    IF S = {} THEN 0
    ELSE LET e == CHOOSE x \in S : TRUE
         IN  Len(Under(errs, e)) + CountUnder(errs, S \ {e})

\* C2: a composite whose candidate has the right type returns, for every key or
\* index present in both, exactly the errors the child returns for that element
\* (same number, same order, same messages, paths re-rooted under the element),
\* every shared child is invoked whatever the other children return, and every
\* returned error is either a node-level error or one of those child errors.
C2_ChildErrorsAggregated ==
    (Matched /\ IsComposite(tree) /\ RightType(tree, candidate)) =>
        /\ \A e \in Shared(tree, candidate) :
              /\ \E i \in DOMAIN calls : calls[i].path = <<Root, e>>
              /\ \A h \in HashOrders(KeysOf(ChildMatcher(tree, e), ChildValue(candidate, e))) :
                    LET sub == json_matches(ChildMatcher(tree, e), ChildValue(candidate, e), h)
                        got == Under(errors, e)
                    IN  /\ Len(got) = Len(sub)
                        /\ \A i \in DOMAIN sub :
                              /\ got[i].message = sub[i].message
                              /\ got[i].path = <<Root, e>> \o Tail(sub[i].path)
        /\ Len(errors) = Len(AtNode(errors)) + CountUnder(errors, Shared(tree, candidate))

\* a composite with a node-level error and two shared children that each
\* returned at least two errors has been matched
C2_Witness ==
    /\ Matched /\ IsComposite(tree) /\ RightType(tree, candidate)
    /\ AtNode(errors) # <<>>
    /\ \E e1, e2 \in Shared(tree, candidate) :
          /\ e1 # e2
          /\ Len(Under(errors, e1)) >= 2
          /\ Len(Under(errors, e2)) >= 2

(***************************************************************************)
(* C3.  The order of an object matcher's errors.                           *)
(***************************************************************************)
ObjectOnObject == Matched /\ tree.t = "ObjectMatcher" /\ candidate.t = "Object"

\* the strings of S in ascending byte order
Ascending(S) ==
    CHOOSE seq \in [1..Cardinality(S) -> S] :
        \A i, j \in 1..Cardinality(S) : i < j => StrLess(seq[i], seq[j])

\* the names of S, ascending and separated by ", "
RECURSIVE Listed(_)
Listed(S) ==
    IF S = {} THEN ""
    ELSE LET first == Ascending(S)[1]
         IN  IF S = {first} THEN first ELSE first \o ", " \o Listed(S \ {first})

MissingKeys(m, v) == DOMAIN m.fields \ DOMAIN v.m
UnexpectedKeys(m, v) == DOMAIN v.m \ DOMAIN m.fields

\* the object-level errors the claim describes, in the claimed order
ObjectLevel(m, v) ==
    (IF MissingKeys(m, v) # {}
     THEN <<[path |-> <<Root>>,
             message |-> "Object is missing keys: " \o Listed(MissingKeys(m, v))]>>
     ELSE <<>>)
    \o
    (IF ~m.allow_unexpected_keys /\ UnexpectedKeys(m, v) # {}
     THEN <<[path |-> <<Root>>,
             message |-> "Object has unexpected keys: " \o Listed(UnexpectedKeys(m, v))]>>
     ELSE <<>>)

\* C3: an object matcher's errors for an object candidate are the missing-keys
\* error (if any), then the unexpected-keys error (if any), each listing its
\* keys ascending and comma-separated, then only per-field errors, whose keys
\* never decrease along the sequence.
C3_ObjectErrorOrder ==
    ObjectOnObject =>
        LET head == ObjectLevel(tree, candidate)
        IN  /\ Len(errors) >= Len(head)
            /\ SubSeq(errors, 1, Len(head)) = head
            /\ \A i \in (Len(head) + 1)..Len(errors) :
                  /\ Len(errors[i].path) >= 2
                  /\ errors[i].path[1] = Root
                  /\ errors[i].path[2].e = "Key"
            /\ \A i, j \in (Len(head) + 1)..Len(errors) :
                  i < j => ~StrLess(errors[j].path[2].key, errors[i].path[2].key)

\* an object matcher has returned a missing-keys error naming two keys, an
\* unexpected-keys error, and field errors under two different keys
C3_Witness ==
    /\ ObjectOnObject
    /\ Cardinality(MissingKeys(tree, candidate)) >= 2
    /\ UnexpectedKeys(tree, candidate) # {}
    /\ Len(errors) >= 4
    /\ errors[1].path = <<Root>> /\ errors[2].path = <<Root>>
    /\ errors[3].path[2] # errors[4].path[2]

(***************************************************************************)
(* C4.  The path of an error is the position of the matcher that detected  *)
(* it.                                                                     *)
(***************************************************************************)
\* the matcher / the value found by walking the keys and indices ks from the
\* root; Absent when the walk leaves the tree
Absent == [t |-> "Absent"]

RECURSIVE MatcherAt(_, _)
MatcherAt(m, ks) ==
    IF ks = <<>> THEN m
    ELSE LET k == Head(ks)
         IN  CASE k.e = "Index" /\ m.t = "ArrayMatcher" /\ k.index + 1 \in DOMAIN m.elements ->
                    MatcherAt(m.elements[k.index + 1], Tail(ks))
               [] k.e = "Key" /\ m.t = "ObjectMatcher" /\ k.key \in DOMAIN m.fields ->
                    MatcherAt(m.fields[k.key], Tail(ks))
               [] k.e = "Index" /\ m.t = "Vec" /\ k.index + 1 \in DOMAIN m.elements ->
                    MatcherAt(m.elements[k.index + 1], Tail(ks))
               [] k.e = "Index" /\ m.t = "Array" /\ k.index + 1 \in DOMAIN m.a ->
                    MatcherAt(m.a[k.index + 1], Tail(ks))
               [] k.e = "Key" /\ m.t = "Object" /\ k.key \in DOMAIN m.m ->
                    MatcherAt(m.m[k.key], Tail(ks))
               [] OTHER -> Absent

RECURSIVE ValueAt(_, _)
ValueAt(v, ks) ==
    IF ks = <<>> THEN v
    ELSE LET k == Head(ks)
         IN  CASE k.e = "Index" /\ v.t = "Array" /\ k.index + 1 \in DOMAIN v.a ->
                    ValueAt(v.a[k.index + 1], Tail(ks))
               [] k.e = "Key" /\ v.t = "Object" /\ k.key \in DOMAIN v.m ->
                    ValueAt(v.m[k.key], Tail(ks))
               [] OTHER -> Absent

\* one iteration order of the keys K
RECURSIVE AnOrder(_)
AnOrder(K) ==
    IF K = {} THEN <<>>
    ELSE LET k == CHOOSE x \in K : TRUE IN <<k>> \o AnOrder(K \ {k})

\* the messages of the mismatches the matcher m itself detects on v
Detected(m, v) ==
    LET at == AtNode(json_matches(m, v, AnOrder(KeysOf(m, v))))
    IN  {at[i].message : i \in DOMAIN at}

\* '$.k1.....kn': indices as decimal integers, keys as their text
RECURSIVE Dotted(_)
Dotted(ks) ==
    IF ks = <<>> THEN ""
    ELSE "." \o (IF Head(ks).e = "Index" THEN ToString(Head(ks).index) ELSE Head(ks).key)
             \o Dotted(Tail(ks))

\* C4: every json_matches call is made by the matcher found under the keys and
\* indices of its path on the value found under them; every mismatch such a
\* matcher detects is returned with exactly that path [Root, k1, ..., kn], every
\* returned error is such a mismatch, and the path renders as '$.k1.....kn'
\* ('$' for the top-level matcher).
C4_PathIsPosition ==
    Matched =>
        LET detected == [i \in DOMAIN calls |-> Detected(calls[i].matcher, calls[i].value)]
        IN  /\ \A i \in DOMAIN calls :
                  /\ calls[i].path[1] = Root
                  /\ MatcherAt(tree, Tail(calls[i].path)) = calls[i].matcher
                  /\ ValueAt(candidate, Tail(calls[i].path)) = calls[i].value
                  /\ \A msg \in detected[i] :
                        \E j \in DOMAIN errors :
                            errors[j] = [path |-> calls[i].path, message |-> msg]
            /\ \A j \in DOMAIN errors :
                  /\ errors[j].path[1] = Root
                  /\ \E i \in DOMAIN calls :
                        /\ calls[i].path = errors[j].path
                        /\ errors[j].message \in detected[i]
                  /\ FmtPath(errors[j].path) = "$" \o Dotted(Tail(errors[j].path))

\* a mismatch three levels down, under a key, an index and a key, has been
\* reported and renders as '$.a.0.a'
C4_Witness ==
    /\ Matched
    /\ \E j \in DOMAIN errors :
          /\ errors[j].path = <<Root, Key("a"), Index(0), Key("a")>>
          /\ FmtPath(errors[j].path) = "$.a.0.a"

(***************************************************************************)
(* C5.  Root occurs once, in front.                                        *)
(***************************************************************************)
\* C5: every returned path starts with Root and holds no other Root, and an
\* error re-rooted by a composite is the child's path with its leading Root
\* dropped and <<Root, Index or Key>> put in front: one segment longer, the
\* child's remaining segments kept in order.
C5_SingleLeadingRoot ==
    Matched =>
        /\ \A j \in DOMAIN errors :
              /\ Len(errors[j].path) >= 1
              /\ errors[j].path[1] = Root
              /\ \A n \in 2..Len(errors[j].path) : errors[j].path[n] # Root
        /\ (IsComposite(tree) /\ RightType(tree, candidate)) =>
              \A e \in Shared(tree, candidate) :
                 \A h \in HashOrders(KeysOf(ChildMatcher(tree, e), ChildValue(candidate, e))) :
                    LET sub == json_matches(ChildMatcher(tree, e), ChildValue(candidate, e), h)
                        got == Under(errors, e)
                    IN  \A i \in DOMAIN got :
                           /\ i \in DOMAIN sub
                           /\ Len(got[i].path) = Len(sub[i].path) + 1
                           /\ got[i].path[2] = e
                           /\ SubSeq(got[i].path, 3, Len(got[i].path)) = Tail(sub[i].path)

\* an error that was re-rooted twice (by an array matcher holding a composite)
\* has been returned
C5_Witness ==
    /\ Matched
    /\ tree.t = "ArrayMatcher"
    /\ \E j \in DOMAIN errors :
          /\ Len(errors[j].path) = 3
          /\ errors[j].path[2].e = "Index"
          /\ errors[j].path[3].e \in {"Index", "Key"}

(***************************************************************************)
(* C6.  The length error of an array matcher.                              *)
(***************************************************************************)
ArrayOnArray == Matched /\ tree.t = "ArrayMatcher" /\ candidate.t = "Array"

\* "lo" for a single index, "lo..hi" for a range
IndexesText(single, several, lo, hi) ==
    IF lo = hi THEN single \o ToString(lo)
    ELSE several \o ToString(lo) \o ".." \o ToString(hi)

\* C6: with E child matchers and A candidate elements, the root-level errors
\* are none when A = E, exactly the one missing-index(es) error naming A..E-1
\* when A < E, and exactly the one unexpected-index(es) error naming E..A-1
\* when A > E; so the two never occur together.
C6_ArrayLengthError ==
    ArrayOnArray =>
        LET A == Len(candidate.a)
            E == Len(tree.elements)
        IN  AtNode(errors) =
               IF A = E THEN <<>>
               ELSE IF A < E
               THEN <<[path |-> <<Root>>,
                       message |-> IndexesText("Array is missing index ",
                                               "Array is missing indexes: ", A, E - 1)]>>
               ELSE <<[path |-> <<Root>>,
                       message |-> IndexesText("Array has unexpected index ",
                                               "Array has unexpected indexes: ", E, A - 1)]>>

\* a matcher of length 2 has met an array of length 5 and reported '2..4'
C6_Witness ==
    /\ ArrayOnArray
    /\ Len(tree.elements) = 2
    /\ Len(candidate.a) = 5
    /\ errors[1] = [path |-> <<Root>>, message |-> "Array has unexpected indexes: 2..4"]

(***************************************************************************)
(* C7.  A length mismatch does not stop the element checks.                *)
(***************************************************************************)
Min(a, b) == IF a < b THEN a ELSE b

\* C7: when the lengths differ, every index below min(actual, expected) is
\* still matched against its child matcher, the result starts with the single
\* length error, and all the element errors follow it in ascending index order.
C7_LengthAndElements ==
    (ArrayOnArray /\ Len(candidate.a) # Len(tree.elements)) =>
        /\ \A i \in 0..(Min(Len(candidate.a), Len(tree.elements)) - 1) :
              /\ \E c \in DOMAIN calls :
                    calls[c] = Call(<<Root, Index(i)>>, tree.elements[i + 1], candidate.a[i + 1])
              /\ \A h \in HashOrders(KeysOf(tree.elements[i + 1], candidate.a[i + 1])) :
                    Len(Under(errors, Index(i)))
                        = Len(json_matches(tree.elements[i + 1], candidate.a[i + 1], h))
        /\ Len(errors) >= 1
        /\ errors[1].path = <<Root>>
        /\ \A j \in 2..Len(errors) :
              /\ Len(errors[j].path) >= 2
              /\ errors[j].path[2].e = "Index"
              /\ errors[j].path[2].index < Min(Len(candidate.a), Len(tree.elements))
        /\ \A j, k \in 2..Len(errors) :
              j < k => errors[j].path[2].index <= errors[k].path[2].index

\* an array longer than its matcher has been matched: the length error comes
\* first and is followed by the errors of two different elements
C7_Witness ==
    /\ ArrayOnArray
    /\ Len(candidate.a) > Len(tree.elements)
    /\ Len(errors) >= 3
    /\ errors[1].path = <<Root>>
    /\ errors[2].path = <<Root, Index(0)>>
    /\ errors[3].path = <<Root, Index(1)>>

(***************************************************************************)
(* C8.  allow_unexpected_keys.                                             *)
(***************************************************************************)
MissingKeysError(m, v) ==
    [path |-> <<Root>>,
     message |-> "Object is missing keys: " \o Listed(MissingKeys(m, v))]
UnexpectedKeysError(m, v) ==
    [path |-> <<Root>>,
     message |-> "Object has unexpected keys: " \o Listed(UnexpectedKeys(m, v))]

\* C8: a matcher made permissive by allow_unexpected_keys() returns, at the
\* object level, the missing-keys error when expected keys are absent and
\* nothing else, whatever extra keys the candidate has; a matcher as
\* ObjectMatcher::new/of builds it returns the unexpected-keys error as soon as
\* the candidate has a key outside the field names; both invoke the child of
\* every key present in both.
C8_PermissiveObject ==
    ObjectOnObject =>
        /\ tree.allow_unexpected_keys = (tree # ObjectMatcher_of(tree.fields))
        /\ tree = allow_unexpected_keys(ObjectMatcher_of(tree.fields)) =>
              AtNode(errors) = IF MissingKeys(tree, candidate) # {}
                               THEN <<MissingKeysError(tree, candidate)>>
                               ELSE <<>>
        /\ (tree = ObjectMatcher_of(tree.fields) /\ UnexpectedKeys(tree, candidate) # {}) =>
              \E j \in DOMAIN errors : errors[j] = UnexpectedKeysError(tree, candidate)
        /\ \A k \in DOMAIN tree.fields \cap DOMAIN candidate.m :
              \E c \in DOMAIN calls :
                  calls[c] = Call(<<Root, Key(k)>>, tree.fields[k], candidate.m[k])

\* a permissive matcher has met an object with extra keys, with a missing key
\* and with a mismatching shared field: only the missing-keys error and the
\* field error are returned
C8_Witness ==
    /\ ObjectOnObject
    /\ tree.allow_unexpected_keys
    /\ Cardinality(UnexpectedKeys(tree, candidate)) >= 2
    /\ MissingKeys(tree, candidate) # {}
    /\ Len(errors) = 2
    /\ errors[1] = MissingKeysError(tree, candidate)
    /\ Len(errors[2].path) = 2

(***************************************************************************)
(* C9.  A missing key is reported once, at the object level only.          *)
(***************************************************************************)
\* C9: for an expected key absent from the candidate no child matcher is
\* invoked and no error is located under that key; the key is named by the
\* missing-keys error, which is returned whether or not there are unexpected
\* keys, as the unexpected-keys error of a strict matcher is returned whether
\* or not keys are missing.
C9_MissingKeyOnlyAtObjectLevel ==
    ObjectOnObject =>
        /\ \A k \in MissingKeys(tree, candidate) :
              /\ \A c \in DOMAIN calls :
                    Len(calls[c].path) >= 2 => calls[c].path[2] # Key(k)
              /\ \A j \in DOMAIN errors :
                    Len(errors[j].path) >= 2 => errors[j].path[2] # Key(k)
        /\ MissingKeys(tree, candidate) # {} =>
              /\ errors # <<>>
              /\ errors[1] = MissingKeysError(tree, candidate)
              /\ \A j \in 2..Len(errors) : errors[j] # errors[1]
        /\ (~tree.allow_unexpected_keys /\ UnexpectedKeys(tree, candidate) # {}) =>
              UnexpectedKeysError(tree, candidate)
                  \in {errors[j] : j \in DOMAIN errors \cap (1..2)}

\* both object-level errors are in one result: two keys are missing, two are
\* unexpected, and the only other error belongs to the one shared key
C9_Witness ==
    /\ ObjectOnObject
    /\ Cardinality(MissingKeys(tree, candidate)) = 2
    /\ Cardinality(UnexpectedKeys(tree, candidate)) = 2
    /\ Len(errors) = 3
    /\ errors[1] = MissingKeysError(tree, candidate)
    /\ errors[2] = UnexpectedKeysError(tree, candidate)
    /\ Len(calls) = 2

(***************************************************************************)
(* C10.  A candidate of the wrong JSON type.                               *)
(***************************************************************************)
\* C10: an array matcher on a non-array returns exactly one error, at [Root],
\* 'Value is not an array', and an object matcher on a non-object exactly one
\* error, at [Root], 'Value is not an object'; neither invokes a child matcher.
C10_WrongTypeSingleError ==
    Matched =>
        /\ (tree.t = "ArrayMatcher" /\ candidate.t # "Array") =>
              /\ errors = <<[path |-> <<Root>>, message |-> "Value is not an array"]>>
              /\ calls = <<Call(<<Root>>, tree, candidate)>>
        /\ (tree.t = "ObjectMatcher" /\ candidate.t # "Object") =>
              /\ errors = <<[path |-> <<Root>>, message |-> "Value is not an object"]>>
              /\ calls = <<Call(<<Root>>, tree, candidate)>>

\* an array matcher with children has met an object with fields: one type
\* error, no child invoked
C10_Witness ==
    /\ Matched
    /\ tree.t = "ArrayMatcher" /\ tree.elements # <<>>
    /\ candidate.t = "Object" /\ DOMAIN candidate.m # {}
    /\ Len(errors) = 1
    /\ Len(calls) = 1

(***************************************************************************)
(* C11.  The primitive matchers: at most one error, at the root.           *)
(***************************************************************************)
IsPrimitive(m) ==
    m.t \in {"NullMatcher", "BooleanMatcher", "IntegerMatcher", "NumberMatcher",
             "StrMatcher"}

\* the JSON type a primitive matcher requires of its candidate
RequiredType(m) ==
    CASE m.t = "NullMatcher"    -> "Null"
      [] m.t = "BooleanMatcher" -> "Bool"
      [] m.t = "IntegerMatcher" -> "Number"
      [] m.t = "NumberMatcher"  -> "Number"
      [] m.t = "StrMatcher"     -> "String"

\* the message a primitive matcher gives a candidate of another JSON type
TypeMessage(m) ==
    CASE m.t = "NullMatcher"    -> "Value is not null"
      [] m.t = "BooleanMatcher" -> "Value is not a boolean"
      [] m.t = "IntegerMatcher" -> "Value is not an integer"
      [] m.t = "NumberMatcher"  -> "Value is not a float"
      [] m.t = "StrMatcher"     -> "Value is not a string"

\* C11: a primitive matcher (null, boolean, integer, float, string) returns at
\* most one error for any candidate, and always at path [Root]; for a candidate
\* of another JSON type the result is exactly the one type message of the
\* matcher, so no value comparison is reported; BooleanMatcher::any() returns
\* no error for true and for false.
C11_PrimitiveSingleRootError ==
    (Matched /\ IsPrimitive(tree)) =>
        /\ Len(errors) <= 1
        /\ \A i \in DOMAIN errors : errors[i].path = <<Root>>
        /\ candidate.t # RequiredType(tree) =>
              errors = <<[path |-> <<Root>>, message |-> TypeMessage(tree)]>>
        /\ (tree = BooleanMatcher_any /\ candidate.t = "Bool") => errors = <<>>

\* BooleanMatcher::any() has been matched against false and returned no error
C11_Witness ==
    /\ Matched
    /\ tree = BooleanMatcher_any
    /\ candidate = Bool(FALSE)
    /\ errors = <<>>

(***************************************************************************)
(* C12.  The message of a value mismatch.                                  *)
(***************************************************************************)
\* does the string s contain the string sub, at position i or later
RECURSIVE ContainsFrom(_, _, _)
ContainsFrom(s, sub, i) ==
    IF i + Len(sub) - 1 > Len(s) THEN FALSE
    ELSE SubSeq(s, i, i + Len(sub) - 1) = sub \/ ContainsFrom(s, sub, i + 1)
Contains(s, sub) == ContainsFrom(s, sub, 1)

IsExact(m) ==
    \/ m.t = "BooleanMatcher" /\ m.variant = "Exact"
    \/ m.t \in {"IntegerMatcher", "StrMatcher"}

\* the candidate has the JSON type of the exact matcher m and another value
Mismatch(m, v) ==
    CASE m.t = "BooleanMatcher" -> v.t = "Bool" /\ v.b # m.expected
      [] m.t = "IntegerMatcher" ->
            v.t = "Number" /\ ~(IsIntegerStored(v) /\ v.i = m.value)
      [] m.t = "StrMatcher"     -> v.t = "String" /\ v.s # m.value

\* the expected value of the matcher and the actual value of the candidate, as
\* JSON text
ExpectedText(m) ==
    CASE m.t = "BooleanMatcher" -> IF m.expected THEN "true" ELSE "false"
      [] m.t = "IntegerMatcher" -> ToString(m.value)
      [] m.t = "StrMatcher"     -> "\"" \o m.value \o "\""
ActualText(v) ==
    CASE v.t = "Bool"   -> IF v.b THEN "true" ELSE "false"
      [] v.t = "Number" -> FmtNumber(v)
      [] v.t = "String" -> "\"" \o v.s \o "\""

\* C12 as stated: on a candidate of the right JSON type and another value, each
\* of the exact boolean, integer and string matchers returns exactly one error,
\* whose message contains the expected value and the actual value.  Violated:
\* BooleanMatcher::exact(true) on false returns 'Value is not true'.
C12_AsStated ==
    (Matched /\ IsExact(tree) /\ Mismatch(tree, candidate)) =>
        /\ Len(errors) = 1
        /\ Contains(errors[1].message, ExpectedText(tree))
        /\ Contains(errors[1].message, ActualText(candidate))

\* C12 (amended): on a candidate of the right JSON type and another value, each
\* of the exact boolean, integer and string matchers returns exactly one error;
\* the message of the integer and of the string matcher contains the expected
\* value followed by the actual value, and the message of the boolean matcher
\* is 'Value is not <expected>', which names the expected value only.
C12_MismatchMessage ==
    (Matched /\ IsExact(tree) /\ Mismatch(tree, candidate)) =>
        /\ Len(errors) = 1
        /\ Contains(errors[1].message, ExpectedText(tree))
        /\ IF tree.t = "BooleanMatcher"
           THEN /\ errors[1].message = "Value is not " \o ExpectedText(tree)
                /\ ~Contains(errors[1].message, ActualText(candidate))
           ELSE \E i \in 1..Len(errors[1].message) :
                   /\ Contains(SubSeq(errors[1].message, 1, i), ExpectedText(tree))
                   /\ Contains(SubSeq(errors[1].message, i + 1,
                                      Len(errors[1].message)),
                               ActualText(candidate))

\* the string matcher for "x" has met the string "y", and reported both
C12_Witness ==
    /\ Matched
    /\ tree = StrMatcher("x")
    /\ candidate = String("y")
    /\ errors = <<[path |-> <<Root>>,
                   message |-> "Expected string \"x\" but got \"y\""]>>

(***************************************************************************)
(* C13.  The integer matcher on a JSON number.                             *)
(***************************************************************************)
\* the message ends with " but got float <something>"
SaysFloat(message) == Contains(message, " but got float ")

\* C13 as stated: IntegerMatcher(N) compares by value every candidate number
\* that is an integer (no error iff it equals N, otherwise 'Expected integer N
\* but got M'), and gives 'Expected integer N but got float F' exactly when the
\* candidate is float-valued, never for an integer of any magnitude.  Violated:
\* an unsigned integer above i64::MAX has no as_i64 and is reported as a float.
C13_AsStated ==
    (Matched /\ tree.t = "IntegerMatcher" /\ candidate.t = "Number") =>
        /\ IsIntegerStored(candidate) =>
              errors = IF candidate.i = tree.value THEN <<>>
                       ELSE <<[path |-> <<Root>>,
                               message |-> "Expected integer " \o ToString(tree.value)
                                           \o " but got " \o ToString(candidate.i)]>>
        /\ IsFloatStored(candidate) =>
              errors = <<[path |-> <<Root>>,
                          message |-> "Expected integer " \o ToString(tree.value)
                                      \o " but got float " \o FmtNumber(candidate)]>>
        /\ (\E i \in DOMAIN errors : SaysFloat(errors[i].message)) =>
              IsFloatStored(candidate)

\* the integer matcher for 1 has met the unsigned integer i64::MAX + 1 and
\* reported it as a float
C13_Witness ==
    /\ Matched
    /\ tree = IntegerMatcher(1)
    /\ candidate = PosInt(I64_MAX + 1)
    /\ errors = <<[path |-> <<Root>>,
                   message |-> "Expected integer 1 but got float "
                               \o ToString(I64_MAX + 1)]>>

(***************************************************************************)
(* C14, C15.  The float matcher on a JSON number.                          *)
(***************************************************************************)
\* a float given in halves, as Display prints it
HalvesText(h) ==
    IF h % 2 = 0 THEN ToString(h \div 2) ELSE ToString(h \div 2) \o ".5"

FloatOnInteger == Matched /\ tree.t = "NumberMatcher" /\ IsIntegerStored(candidate)

\* C14 as stated: the float matcher performs no coercion: a candidate number
\* stored as an integer is never accepted, and is reported with 'Expected float
\* F but got integer N'.  Violated: NumberMatcher(1.0) accepts the integer 1.
C14_AsStated ==
    FloatOnInteger =>
        errors = <<[path |-> <<Root>>,
                    message |-> "Expected float " \o HalvesText(tree.number.halves)
                                \o " but got integer " \o ToString(candidate.i)]>>

\* C14 (amended): the float matcher is not the converse of the integer matcher:
\* it converts a candidate number stored as an integer to f64 and treats it as
\* the float-stored number of that value, returning for it exactly what it
\* returns for that float; it never reports 'but got integer'.
C14_IntegerCoerced ==
    FloatOnInteger =>
        /\ errors = json_matches(tree, Float(F64Of(candidate)), <<>>)
        /\ errors = <<>> <=> F64Of(candidate) = tree.number
        /\ \A i \in DOMAIN errors : ~Contains(errors[i].message, "integer")

\* the float matcher for 1.0 has met the integer 1 and accepted it
C14_Witness ==
    /\ FloatOnInteger
    /\ tree = NumberMatcher(F64(2))
    /\ candidate = PosInt(1)
    /\ errors = <<>>

\* C15 as stated: NumberMatcher::new(x) returns no error for a candidate number
\* whose numeric value equals x, float- or integer-stored, and exactly one
\* error 'Expected float x but got y' for a number of a different value y.
\* Violated: an integer that f64 does not hold is compared after rounding, so
\* NumberMatcher(2^53) accepts the integer 2^53 + 1.
C15_AsStated ==
    (Matched /\ tree.t = "NumberMatcher" /\ candidate.t = "Number") =>
        errors = IF NumericHalves(candidate) = tree.number.halves THEN <<>>
                 ELSE <<[path |-> <<Root>>,
                         message |-> "Expected float " \o HalvesText(tree.number.halves)
                                     \o " but got "
                                     \o HalvesText(NumericHalves(candidate))]>>

\* C15 (amended): NumberMatcher::new(x) returns no error for a candidate number
\* whose value converted to f64 equals x, float- or integer-stored (the integer
\* 4 satisfies 4.0), and otherwise exactly one error 'Expected float x but got
\* y', y being the candidate converted to f64: an integer that f64 holds is
\* compared and shown by its own value, a larger one by the nearest f64.
C15_FloatByValue ==
    (Matched /\ tree.t = "NumberMatcher" /\ candidate.t = "Number") =>
        /\ errors = IF F64Of(candidate) = tree.number THEN <<>>
                    ELSE <<[path |-> <<Root>>,
                            message |-> "Expected float "
                                        \o HalvesText(tree.number.halves)
                                        \o " but got "
                                        \o HalvesText(F64Of(candidate).halves)]>>
        /\ NumericHalves(candidate) \in F64Halves =>
              F64Of(candidate).halves = NumericHalves(candidate)

\* the float matcher for F64_EXACT has met the integer F64_EXACT + 1, which
\* f64 does not hold, and accepted it
C15_Witness ==
    /\ Matched
    /\ tree = NumberMatcher(F64(2 * F64_EXACT))
    /\ candidate = PosInt(F64_EXACT + 1)
    /\ errors = <<>>

(***************************************************************************)
(* C16.  A JSON value used as a matcher.                                   *)
(***************************************************************************)
IsLiteral(m) == m.t \in JsonTypes

\* does the number m, used as a matcher, stand for an integer matcher
IsI64(m) == IsIntegerStored(m) /\ m.i \in I64_MIN..I64_MAX

\* the candidates a JSON value used as a matcher accepts: structural equality,
\* except that a number that is not an i64 (float-stored, or an unsigned
\* integer above i64::MAX) accepts every number of its f64 value
RECURSIVE LiteralAccepts(_, _)
LiteralAccepts(m, c) ==
    CASE m.t = "Number" ->
            /\ c.t = "Number"
            /\ IF IsI64(m) THEN IsIntegerStored(c) /\ c.i = m.i
               ELSE F64Of(c) = F64Of(m)
      [] m.t = "Array" ->
            /\ c.t = "Array"
            /\ Len(c.a) = Len(m.a)
            /\ \A i \in DOMAIN m.a : LiteralAccepts(m.a[i], c.a[i])
      [] m.t = "Object" ->
            /\ c.t = "Object"
            /\ DOMAIN c.m = DOMAIN m.m
            /\ \A k \in DOMAIN m.m : LiteralAccepts(m.m[k], c.m[k])
      [] OTHER -> c = m

\* C16 as stated: a JSON value m used as a matcher returns no errors against c
\* if and only if c is structurally equal to m (same type and value, arrays
\* element by element, objects as key-to-value mappings, recursively), an
\* integer-stored and a float-stored number never being equal.  Violated: the
\* float 1.0 used as a matcher accepts the integer 1.
C16_AsStated ==
    (Matched /\ IsLiteral(tree)) => (errors = <<>> <=> candidate = tree)

\* C16 (amended): a JSON value m used as a matcher returns no errors against c
\* if and only if c equals m structurally, where an integer m within i64 is
\* equalled only by the integer-stored number of its value, and any other
\* number m (float-stored, or an unsigned integer above i64::MAX) by every
\* number, float- or integer-stored, whose f64 value is that of m; in
\* particular m always matches itself.
C16_LiteralAccepts ==
    (Matched /\ IsLiteral(tree)) =>
        /\ errors = <<>> <=> LiteralAccepts(tree, candidate)
        /\ candidate = tree => errors = <<>>

\* an array of an object holding the float 1.0, used as a matcher, has accepted
\* the array of the object holding the integer 1
C16_Witness ==
    /\ Matched
    /\ tree = Array(<<Object([k \in {"a"} |-> Float(F64(2))])>>)
    /\ candidate = Array(<<Object([k \in {"a"} |-> PosInt(1)])>>)
    /\ errors = <<>>

(***************************************************************************)
(* C17.  A literal and the explicit matcher it stands for.                 *)
(***************************************************************************)
IsRustLiteral(m) == m.t \in {"()", "bool", "i64", "f64", "&str", "Vec"}

\* the explicit matcher tree of a literal: NullMatcher for null and (),
\* BooleanMatcher::exact for a boolean, StrMatcher for a string, ArrayMatcher
\* over the elements, ObjectMatcher (unexpected keys disallowed) over the
\* fields; IntegerMatcher for an integer within i64 and NumberMatcher for a
\* float-stored number.  For an unsigned integer above i64::MAX, `big` chooses:
\* Some(n) makes it IntegerMatcher(n), None the NumberMatcher of its f64 value.
RECURSIVE ExplicitWith(_, _)
ExplicitWith(m, big) ==
    CASE m.t \in {"Null", "()"} -> NullMatcher
      [] m.t = "Bool"   -> BooleanMatcher_exact(m.b)
      [] m.t = "bool"   -> BooleanMatcher_exact(m.value)
      [] m.t = "Number" ->
            IF IsI64(m) THEN IntegerMatcher(m.i)
            ELSE IF IsFloatStored(m) THEN NumberMatcher(m.f)
            ELSE IF big.some THEN IntegerMatcher(big.x)
            ELSE NumberMatcher(F64Of(m))
      [] m.t = "i64"    -> IntegerMatcher(m.value)
      [] m.t = "f64"    -> NumberMatcher(m.value)
      [] m.t = "String" -> StrMatcher(m.s)
      [] m.t = "&str"   -> StrMatcher(m.value)
      [] m.t = "Array"  ->
            ArrayMatcher_of([i \in DOMAIN m.a |-> ExplicitWith(m.a[i], big)])
      [] m.t = "Vec"    ->
            ArrayMatcher_of([i \in DOMAIN m.elements |->
                                ExplicitWith(m.elements[i], big)])
      [] m.t = "Object" ->
            ObjectMatcher_of([k \in DOMAIN m.m |-> ExplicitWith(m.m[k], big)])

\* what the explicit matcher tree e returns for the candidate
ExplicitErrors(e) == json_matches(e, candidate, AnOrder(KeysOf(e, candidate)))

\* C17 as stated: a literal used as a matcher returns exactly the error
\* sequence of the corresponding explicit matcher, every integer-valued number
\* standing for an IntegerMatcher.  Violated: the integer i64::MAX + 1 used as
\* a matcher accepts itself, which no IntegerMatcher does.
C17_AsStated ==
    (Matched /\ (IsLiteral(tree) \/ IsRustLiteral(tree))) =>
        \E n \in I64_MIN..I64_MAX :
            errors = ExplicitErrors(ExplicitWith(tree, Some(n)))

\* C17 (amended): a literal used as a matcher returns exactly the error
\* sequence of the corresponding explicit matcher, recursively: a Value null /
\* bool / string / array / object as NullMatcher / BooleanMatcher::exact /
\* StrMatcher / ArrayMatcher over its elements / ObjectMatcher over its fields
\* with unexpected keys disallowed; a Value number as IntegerMatcher when it is
\* an integer within i64 and as NumberMatcher of its f64 value otherwise
\* (float-stored, or an unsigned integer above i64::MAX); and the Rust values
\* (), bool, i8..i64 and u8..u32, f32/f64, &str/String and Vec/slice as
\* NullMatcher, BooleanMatcher::exact, IntegerMatcher, NumberMatcher,
\* StringMatcher and ArrayMatcher.
C17_LiteralAsExplicit ==
    (Matched /\ (IsLiteral(tree) \/ IsRustLiteral(tree))) =>
        errors = ExplicitErrors(ExplicitWith(tree, None))

\* an object literal has met an object with other values and another key set,
\* and returned the two errors of the object matcher over its fields
C17_Witness ==
    /\ Matched
    /\ tree = Object([k \in {"a", "b"} |-> PosInt(1)])
    /\ candidate = Object([k \in {"a"} |-> Float(F64(2))])
    /\ Len(errors) = 2
    /\ errors[1].message = "Object is missing keys: b"
    /\ errors[2] = [path |-> <<Root, Key("a")>>,
                    message |-> "Expected integer 1 but got float 1.0"]

(***************************************************************************)
(* C18.  The result is a function of the matcher tree and the candidate.   *)
(***************************************************************************)
\* C18: matching the same tree against the same candidate again returns the
\* identical error sequence, same errors in the same order, and makes the same
\* calls, whatever order the hash sets iterate in during either call and
\* whatever calls were made before.
C18_SameResultAgain ==
    [][pc # "built" => (errors' = errors /\ calls' = calls)]_vars

\* an object matcher has been matched a second time against an object with two
\* missing, two unexpected and one shared key, and returned its three errors
C18_Witness ==
    /\ pc = "rematched"
    /\ tree.t = "ObjectMatcher"
    /\ candidate.t = "Object"
    /\ Cardinality(DOMAIN tree.fields \ DOMAIN candidate.m) >= 2
    /\ Cardinality(DOMAIN candidate.m \ DOMAIN tree.fields) >= 2
    /\ Len(errors) = 3

(***************************************************************************)
(* C19.  Concurrent calls on a shared tree.                                *)
(***************************************************************************)
\* C19: under every interleaving of the concurrent json_matches calls on one
\* shared tree, with the same or with different candidates, each call returns
\* exactly what the same call returns when it runs alone.
C19_AsAlone ==
    \A t \in DOMAIN threads :
        threads[t].pc = "returned" =>
            threads[t].result = json_matches(tree, threads[t].candidate, threads[t].h)

\* one call has returned its errors while another call, on a different
\* candidate, is in the middle of its invocations and has pushed errors too
C19_Witness ==
    \E t, u \in DOMAIN threads :
        /\ threads[t].pc = "returned"
        /\ threads[t].result # <<>>
        /\ threads[u].pc = "running"
        /\ threads[u].pos >= 2
        /\ threads[u].candidate # threads[t].candidate
        /\ buffers[u] # <<>>

(***************************************************************************)
(* C20.  No panic.                                                         *)
(***************************************************************************)
\* the JSON type the root of the tree requires of the candidate
RootType(m) ==
    CASE m.t \in {"ArrayMatcher", "Vec", "Array"} -> "Array"
      [] m.t \in {"ObjectMatcher", "Object"}      -> "Object"
      [] m.t \in {"NullMatcher", "()", "Null"}    -> "Null"
      [] m.t \in {"BooleanMatcher", "bool", "Bool"} -> "Bool"
      [] m.t \in {"IntegerMatcher", "NumberMatcher", "i64", "f64", "Number"} -> "Number"
      [] m.t \in {"StrMatcher", "&str", "String"} -> "String"

\* C20: json_matches never panics, for any tree of the library's matchers and
\* literals and any candidate: no expect, unwrap or indexing reachable from it
\* fails (min/max of the index ranges, self.elements[index], array.get(index),
\* fields.get(key), map.get(key), as_f64().unwrap()), with empty matchers,
\* empty candidates and any length or key mismatch; and a candidate of the
\* wrong JSON type yields errors.
C20_NeverPanics ==
    /\ pc # "panicked"
    /\ (Matched /\ candidate.t # RootType(tree)) => errors # <<>>

\* an array matcher of MaxExpectedLen elements has met the empty array, and
\* returned the error of the missing indexes
C20_Witness ==
    /\ Matched
    /\ tree.t = "ArrayMatcher"
    /\ Len(tree.elements) = MaxExpectedLen
    /\ candidate = Array(<<>>)
    /\ Len(errors) = 1
    /\ errors[1].path = <<Root>>
    /\ Contains(errors[1].message, "Array is missing indexes: 0..")

(***************************************************************************)
(* C21.  Matching terminates, and the recursion stays inside the candidate *)
(* document.                                                               *)
(***************************************************************************)
\* the number of array/object levels of a JSON value
RECURSIVE Nesting(_)
Nesting(v) ==
    IF v.t \notin {"Array", "Object"} THEN 0
    ELSE LET ds == {Nesting(c) : c \in Children(v)}
         IN  1 + (IF ds = {} THEN 0 ELSE CHOOSE d \in ds : \A e \in ds : e <= d)

\* the number of nodes of a JSON value
RECURSIVE Nodes(_)
Nodes(v) ==
    CASE v.t = "Array"  ->
            IF v.a = <<>> THEN 1
            ELSE Nodes(Head(v.a)) + Nodes(Array(Tail(v.a)))
      [] v.t = "Object" ->
            IF DOMAIN v.m = {} THEN 1
            ELSE LET k == CHOOSE x \in DOMAIN v.m : TRUE
                 IN  Nodes(v.m[k])
                     + Nodes(Object([x \in DOMAIN v.m \ {k} |-> v.m[x]]))
      [] OTHER -> 1

\* every invocation on the stack, and every invocation made so far, is on the
\* element of the candidate that its path names; the stack is a chain of
\* parents and children, never deeper than the candidate
StaysInside ==
    /\ pc # "panicked"
    /\ Len(stack) <= Nesting(candidate) + 1
    /\ Len(calls) <= Nodes(candidate)
    /\ \A k \in DOMAIN stack :
          /\ stack[k].value = ValueAt(candidate, Tail(frame_path(k)))
          /\ k > 1 => stack[k - 1].value.t \in {"Array", "Object"}
    /\ \A i \in DOMAIN calls :
          /\ calls[i].value = ValueAt(candidate, Tail(calls[i].path))
          /\ Len(calls[i].path) <= Nesting(candidate) + 1
          /\ \A j \in DOMAIN calls : calls[j].path = calls[i].path => j = i
    /\ Matched =>
          LET r == Invoke(tree, candidate, AnOrder(KeysOf(tree, candidate)))
          IN  errors = r.errors /\ calls = r.calls

\* C21: every call of json_matches on a finite tree and a finite candidate
\* eventually returns, and all the while each invocation on its stack is on an
\* existing element of the candidate, one level below its caller's, so the
\* recursion is never deeper than the candidate's nesting depth
C21_Terminates ==
    /\ <>(pc = "matched")
    /\ []StaysInside

\* the recursion at its deepest: one frame per level of the candidate, the
\* innermost on a leaf of the candidate
C21_Witness ==
    /\ pc = "running"
    /\ Nesting(candidate) = MaxDepth - 1
    /\ Len(stack) = MaxDepth
    /\ stack[Len(stack)].value.t = "Number"

(***************************************************************************)
(* C22.  assert_jm! returns on an empty error list and panics with the     *)
(* full report otherwise.                                                  *)
(***************************************************************************)
\* the lines of a text: the pieces between its line feeds
LineFeeds(s) == {i \in 1..Len(s) : SubSeq(s, i, i) = "\n"}

Lines(s) ==
    LET feeds == LineFeeds(s)
        nth(k) == IF k = 0 THEN 0
                  ELSE IF k > Cardinality(feeds) THEN Len(s) + 1
                  ELSE CHOOSE i \in feeds : Cardinality({j \in feeds : j < i}) = k - 1
    IN  [k \in 1..(Cardinality(feeds) + 1) |-> SubSeq(s, nth(k - 1) + 1, nth(k) - 1)]

\* the number of lines of a pretty-printed value: one per scalar and per empty
\* array or object, an opening and a closing line around the members otherwise
RECURSIVE PrettyLineCount(_)
RECURSIVE MemberLines(_)
MemberLines(v) ==
    CASE v.t = "Array" ->
            IF v.a = <<>> THEN 0
            ELSE PrettyLineCount(Head(v.a)) + MemberLines(Array(Tail(v.a)))
      [] v.t = "Object" ->
            IF DOMAIN v.m = {} THEN 0
            ELSE LET k == CHOOSE x \in DOMAIN v.m : TRUE
                 IN  PrettyLineCount(v.m[k])
                     + MemberLines(Object([x \in DOMAIN v.m \ {k} |-> v.m[x]]))
      [] OTHER -> 0
PrettyLineCount(v) == IF MemberLines(v) = 0 THEN 1 ELSE 2 + MemberLines(v)

Asserted == pc \in {"returned", "panicked"}

\* the report of the errors: a blank line, the header, a bullet per error
ReportLines ==
    <<"", "Json matcher failed:">>
    \o [i \in DOMAIN errors |->
           "  - " \o FmtPath(errors[i].path) \o ": " \o errors[i].message]
    \o <<"", "Actual:">>

\* C22: assert_jm! in each of its forms calls json_matches once, on the matcher
\* its second argument denotes and on the actual value; it returns, leaving the
\* actual value as it was, iff the returned error list is empty; otherwise it
\* panics with the header "Json matcher failed:", a bullet line
\* "  - <path>: <message>" for every returned error in the returned order, and
\* "Actual:" followed by the pretty-printed actual value
C22_AssertReports ==
    Asserted =>
        /\ tree = expectation_of(expected)
        /\ Len(SelectSeq(calls, LAMBDA c : c.path = <<Root>>)) = 1
        /\ calls[1].matcher = tree /\ calls[1].value = candidate
        /\ errors = json_matches(tree, candidate, AnOrder(KeysOf(tree, candidate)))
        /\ pc = "returned" <=> errors = <<>>
        /\ pc = "returned" => panicking = None
        /\ pc = "panicked" =>
              /\ panicking.some
              /\ LET lines == Lines(panicking.x)
                     n == Len(ReportLines)
                 IN  /\ Len(lines) = n + PrettyLineCount(candidate)
                     /\ SubSeq(lines, 1, n) = ReportLines
                     /\ \E order \in HashOrders(KeysOfValue(candidate)) :
                           join(SubSeq(lines, n + 1, Len(lines)), "\n")
                           = to_string_pretty(candidate, order)

\* the object form on a nested actual value that fails with two errors
C22_Witness ==
    /\ pc = "panicked"
    /\ expected.k = "object"
    /\ Len(errors) = 2
    /\ errors[1].path # errors[2].path
    /\ candidate = Object([k \in {"a", "b"} |->
                              IF k = "a" THEN PosInt(1) ELSE String("x")])

(***************************************************************************)
(* C23.  U16Matcher: integers in range, or strings that parse as u16.      *)
(***************************************************************************)
OnU16 == Matched /\ tree.t = "U16Matcher"

RECURSIVE Zeros(_)
Zeros(k) == IF k = 0 THEN "" ELSE "0" \o Zeros(k - 1)

\* s is a decimal numeral of n: its digits, after any number of zeros
Numeral(s, n) == \E k \in 0..Len(s) : s = Zeros(k) \o ToString(n)

\* a plain base-10 integer within u16: digits only
PlainU16(s) == \E n \in 0..U16_MAX : Numeral(s, n)

\* the same, or one '+' in front of it
SignedU16(s) ==
    \/ PlainU16(s)
    \/ Len(s) > 1 /\ SubSeq(s, 1, 1) = "+" /\ PlainU16(SubSeq(s, 2, Len(s)))

U16Errors(number_in_range, number_out_of_range, string_accepted) ==
    IF ~tree.allow_strings
    THEN IF number_in_range THEN <<>>
         ELSE IF number_out_of_range
         THEN <<at_root("Integer out of bounds for u16")>>
         ELSE <<at_root("Expected number fitting u16")>>
    ELSE IF candidate.t # "String" THEN <<at_root("Expected string fitting u16")>>
         ELSE IF string_accepted THEN <<>>
         ELSE <<at_root("Expected number fitting u16")>>

\* C23 as stated: every integer outside 0..=65535 is 'out of bounds', and the
\* accepted strings are the plain base-10 integers in 0..=65535
C23_AsStated ==
    OnU16 =>
        errors = U16Errors(IsIntegerStored(candidate) /\ candidate.i \in 0..U16_MAX,
                           IsIntegerStored(candidate) /\ candidate.i \notin 0..U16_MAX,
                           candidate.t = "String" /\ PlainU16(candidate.s))

\* C23: U16Matcher::new() returns no error iff the candidate is an integer in
\* 0..=u16::MAX; an integer within i64 outside that range gives 'Integer out of
\* bounds for u16'; everything else, an integer above i64::MAX included, gives
\* 'Expected number fitting u16'.  new_allow_strings() returns no error iff the
\* candidate is a string of decimal digits, optionally after one '+', whose
\* value is in 0..=u16::MAX; other strings give 'Expected number fitting u16'
\* and non-strings 'Expected string fitting u16'
C23_U16Range ==
    OnU16 =>
        errors = U16Errors(IsIntegerStored(candidate) /\ candidate.i \in 0..U16_MAX,
                           IsI64(candidate) /\ candidate.i \notin 0..U16_MAX,
                           candidate.t = "String" /\ SignedU16(candidate.s))

\* the string "+3" accepted in string mode
C23_Witness ==
    /\ OnU16
    /\ tree.allow_strings
    /\ candidate = String("+3")
    /\ errors = <<>>

(***************************************************************************)
(* C24.  UuidMatcher: 36 characters with 4 hyphens.                        *)
(***************************************************************************)
OnUuid == Matched /\ tree.t = "UuidMatcher"

\* C24 as stated: no error iff the candidate is a string of exactly 36
\* characters with exactly 4 hyphens; any other string gives 'Expected valid
\* UUID format' and a non-string 'Expected string for UUID'
C24_AsStated ==
    OnUuid =>
        errors = IF candidate.t # "String" THEN <<at_root("Expected string for UUID")>>
                 ELSE IF Len(candidate.s) = 36 /\ hyphens(candidate.s) = 4 THEN <<>>
                 ELSE <<at_root("Expected valid UUID format")>>

\* a string of 35 characters accepted
C24_Witness ==
    /\ OnUuid
    /\ candidate.t = "String"
    /\ Len(candidate.s) = 35
    /\ errors = <<>>

(***************************************************************************)
(* C25.  DateTimeStringMatcher checks type, parse, offset, upper bound,    *)
(* lower bound, and returns the first failure.                             *)
(***************************************************************************)
OnDateTime == Matched /\ tree.t = "DateTimeStringMatcher"

\* the text ends in an offset +hh:mm or -hh:mm other than 00:00
EndsInNonZeroOffset(s) ==
    /\ Len(s) >= 6
    /\ SubSeq(s, Len(s) - 5, Len(s) - 5) \in {"+", "-"}
    /\ SubSeq(s, Len(s) - 2, Len(s) - 2) = ":"
    /\ SubSeq(s, Len(s) - 4, Len(s)) # "00:00"

AboveUpper(secs) ==
    /\ tree.upper_bound.some
    /\ IF tree.upper_bound_inclusive THEN secs > tree.upper_bound.x.secs
       ELSE secs >= tree.upper_bound.x.secs

BelowLower(secs) ==
    /\ tree.lower_bound.some
    /\ IF tree.lower_bound_inclusive THEN secs < tree.lower_bound.x.secs
       ELSE secs <= tree.lower_bound.x.secs

\* C25: at most one error, at the root; a non-string gets the type error; an
\* unparsable string an error that ends with the parser's reason; a parsable
\* text with a non-zero offset exactly 'Datetime is not in UTC' whatever its
\* instant; a text in UTC the upper bound's error if it is above it, else the
\* lower bound's if it is below it, else none
C25_FirstFailure ==
    OnDateTime =>
        LET parsed == parse_datetime_from_string(candidate.s)
        IN  /\ Len(errors) <= 1
            /\ \A i \in DOMAIN errors : errors[i].path = <<Root>>
            /\ candidate.t # "String" =>
                  errors = <<at_root("Datetime value needs to be a string")>>
            /\ candidate.t = "String" /\ ~parsed.ok =>
                  /\ Len(errors) = 1
                  /\ \E reason \in {TOO_SHORT, INVALID, OUT_OF_RANGE, TOO_LONG} :
                        /\ reason = parse_from_rfc3339(candidate.s).e
                        /\ errors[1].message =
                              "Could not parse string as rfc3339 datetime: "
                              \o "Value cannot be parsed as an RFC 3339 timestamp: "
                              \o reason
            /\ candidate.t = "String" /\ parsed.ok =>
                  /\ EndsInNonZeroOffset(candidate.s) <=> parsed.x.offset # 0
                  /\ parsed.x.offset # 0 =>
                        errors = <<at_root("Datetime is not in UTC")>>
                  /\ parsed.x.offset = 0 /\ AboveUpper(parsed.x.secs) =>
                        /\ Len(errors) = 1
                        /\ errors[1].message \in
                              {"Datetime is after upper bound",
                               "Datetime is after or equal to upper bound"}
                  /\ parsed.x.offset = 0 /\ ~AboveUpper(parsed.x.secs)
                        /\ BelowLower(parsed.x.secs) =>
                        /\ Len(errors) = 1
                        /\ Contains(errors[1].message, "Datetime is before ")
                  /\ parsed.x.offset = 0 /\ ~AboveUpper(parsed.x.secs)
                        /\ ~BelowLower(parsed.x.secs) => errors = <<>>
                  /\ (\E i \in DOMAIN errors : Contains(errors[i].message, " bound"))
                        => parsed.x.offset = 0

\* a text eight hours west of UTC whose instant is above the upper bound:
\* reported as not in UTC, not as out of bounds
C25_Witness ==
    /\ OnDateTime
    /\ candidate = String("2024-01-05T11:00:01-08:00")
    /\ tree.upper_bound = Some(UpperBound)
    /\ errors = <<at_root("Datetime is not in UTC")>>

(***************************************************************************)
(* C26.  AnyMatcher accepts everything, not_null everything but null.      *)
(***************************************************************************)
IsPrefix(p, q) == Len(p) <= Len(q) /\ SubSeq(q, 1, Len(p)) = p

\* C26: wherever an AnyMatcher is invoked, it invokes nothing below and the
\* errors at and below its path are: 'Expected non-null value' at its path when
\* it is not_null() and its value is null, none otherwise
C26_AnyAccepts ==
    Matched =>
        \A i \in DOMAIN calls :
            calls[i].matcher.t = "AnyMatcher" =>
                /\ \A j \in DOMAIN calls : IsPrefix(calls[i].path, calls[j].path) => j = i
                /\ SelectSeq(errors, LAMBDA err : IsPrefix(calls[i].path, err.path))
                   = IF calls[i].matcher = AnyMatcher_not_null /\ calls[i].value = Null
                     THEN <<JsonMatcherError(calls[i].path, "Expected non-null value")>>
                     ELSE <<>>

\* not_null() on false: accepted
C26_Witness ==
    /\ Matched
    /\ tree = AnyMatcher_not_null
    /\ candidate = Bool(FALSE)
    /\ errors = <<>>

(***************************************************************************)
(* C27.  recent_utc: the last 60 seconds through the time of construction. *)
(***************************************************************************)
OnRecent == Matched /\ Len(chain) = 2

\* C27 as stated: the bounds are in order; a UTC timestamp later than the time
\* of construction (here: later than the last reading of the clock that the
\* construction made) is rejected with 'Datetime is after upper bound', and a
\* timestamp inside the window (not earlier than 60 seconds before that last
\* reading and not later than the first) is accepted, whenever the match runs
C27_AsStated ==
    OnRecent =>
        LET parsed == parse_datetime_from_string(candidate.s)
        IN  /\ ~Later(unwrap(tree.lower_bound), unwrap(tree.upper_bound))
            /\ parsed.ok /\ parsed.x.offset = 0 =>
                  /\ Later(parsed.x, chain[2]) =>
                        errors = <<at_root("Datetime is after upper bound")>>
                  /\ ~Later(parsed.x, chain[1])
                        /\ ~Later(minus(chain[2], 60), parsed.x) => errors = <<>>

\* constructed at 10:00:00.000, and a timestamp of 10:00:00.500 accepted a
\* minute later
C27_Witness ==
    /\ OnRecent
    /\ chain = <<ClockStart, ClockStart>>
    /\ now.secs >= ClockStart.secs + 60
    /\ candidate = String("2024-01-05T10:00:00.500Z")
    /\ errors = <<>>

(***************************************************************************)
(* C28.  Different paths, different texts.                                 *)
(***************************************************************************)
Rendered == pc = "rendered"

\* C28 as stated: two different segment sequences that start at Root are
\* rendered as different texts, also with keys made of digits, keys that
\* contain '.', and the key '$'
C28_AsStated ==
    Rendered /\ chain[1] # chain[2] => buffers[1] # buffers[2]

\* the key "a.b" of the root and the key "b" of the object under "a" are both
\* rendered as $.a.b
C28_Witness ==
    /\ Rendered
    /\ chain = <<<<Root, Key("a.b")>>, <<Root, Key("a"), Key("b")>>>>
    /\ buffers = <<"$.a.b", "$.a.b">>

(***************************************************************************)
(* C29.  A built ObjectMatcher is its final field mapping and its flag.    *)
(***************************************************************************)
\* the places of the chain where a matcher is attached under key
Attached(key) == {i \in DOMAIN chain : chain[i].op = "field" /\ chain[i].key = key}

Max(S) == CHOOSE x \in S : \A y \in S : y <= x

\* the final mapping: every attached key with the matcher attached last
FinalFields ==
    [key \in {k \in BuildKeys : Attached(k) # {}} |-> chain[Max(Attached(key))].value]

FinalFlag == \E i \in DOMAIN chain : chain[i].op = "allow_unexpected_keys"

\* the matcher that mapping and flag describe
Final ==
    [t |-> "ObjectMatcher", allow_unexpected_keys |-> FinalFlag, fields |-> FinalFields]

\* C29: after any chain of builder calls the matcher is the one of the final
\* mapping (per key the matcher attached last) and of the flag (set iff
\* allow_unexpected_keys() occurs anywhere in the chain); its errors for a
\* candidate are those of that matcher under every iteration order of the
\* maps, the object-level errors name each key once, and for a key present
\* on both sides exactly one matcher is invoked, the one attached last
C29_FinalMapping ==
    /\ tree = Final
    /\ Matched =>
          /\ errors = ExplicitErrors(Final)
          /\ candidate.t = "Object" =>
                /\ AtNode(errors) = ObjectLevel(Final, candidate)
                /\ \A key \in DOMAIN FinalFields \cap DOMAIN candidate.m :
                      \E i \in DOMAIN calls :
                         /\ calls[i].path = <<Root, Key(key)>>
                         /\ calls[i].matcher = FinalFields[key]
                         /\ \A j \in DOMAIN calls :
                               calls[j].path = calls[i].path => j = i

\* a matcher attached under "a", made permissive, and a second matcher attached
\* under "a": the candidate has the extra key "b" and under "a" a value for the
\* first matcher, and the only error is the second matcher's
C29_Witness ==
    /\ Matched
    /\ chain = <<field_call("a", IntegerMatcher(1)), allow_unexpected_keys_call,
                 field_call("a", StrMatcher("x"))>>
    /\ candidate = Object([k \in {"a", "b"} |-> PosInt(1)])
    /\ Len(errors) = 1
    /\ errors[1].path = <<Root, Key("a")>>

(***************************************************************************)
(* C30.  allow_unexpected_keys reaches the node it is set on, no further.  *)
(***************************************************************************)
\* the part of the expression expr found at the end of path
RECURSIVE Part(_, _)
Part(expr, path) ==
    IF path = <<>> THEN expr
    ELSE LET at == Head(path)
         IN  CASE expr.k = "object" -> Part(expr.fields[at.key], Tail(path))
               [] expr.k = "array" -> Part(expr.elements[at.index + 1], Tail(path))
               [] expr.k = "matcher" /\ expr.matcher.t = "Object" ->
                     Part(expr_matcher(expr.matcher.m[at.key]), Tail(path))
               [] expr.k = "matcher" /\ expr.matcher.t = "Array" ->
                     Part(expr_matcher(expr.matcher.a[at.index + 1]), Tail(path))

\* an ObjectMatcher or a literal JSON object
OfAnObject(part) ==
    \/ part.k = "object"
    \/ part.k = "matcher" /\ part.matcher.t = "Object"

FieldNames(part) ==
    IF part.k = "object" THEN DOMAIN part.fields ELSE DOMAIN part.matcher.m

\* allow_unexpected_keys() was called on this very node
MadePermissive(part) == part.k = "object" /\ part.permissive

\* C30: wherever an ObjectMatcher or a literal JSON object is invoked on an
\* object, 'Object has unexpected keys' is reported at that place, once and
\* naming the extra keys, iff the object has keys outside the matcher's and
\* allow_unexpected_keys() was not called on that very matcher, whatever the
\* flags of the matchers above and below it
C30_FlagStaysLocal ==
    Matched =>
        \A i \in DOMAIN calls :
            LET part == Part(expected, Tail(calls[i].path))
            IN  OfAnObject(part) /\ calls[i].value.t = "Object" =>
                   LET extra == DOMAIN calls[i].value.m \ FieldNames(part)
                   IN  SelectSeq(errors, LAMBDA err :
                                    /\ err.path = calls[i].path
                                    /\ Contains(err.message, "unexpected keys"))
                       = IF ~MadePermissive(part) /\ extra # {}
                         THEN <<JsonMatcherError(calls[i].path,
                                   "Object has unexpected keys: " \o Listed(extra))>>
                         ELSE <<>>

\* a permissive ObjectMatcher with a literal JSON object below it, through an
\* array: the extra key of the outer object is tolerated, that of the inner
\* one reported
C30_Witness ==
    /\ Matched
    /\ expected = expr_object(TRUE, [k \in {"a"} |->
                     expr_array(<<expr_matcher(Object([j \in {"a"} |-> PosInt(1)]))>>)])
    /\ candidate = Object([k \in {"a", "b"} |->
                     IF k = "a"
                     THEN Array(<<Object([j \in {"a", "b"} |-> PosInt(1)])>>)
                     ELSE PosInt(1)])
    /\ errors = <<JsonMatcherError(<<Root, Key("a"), Index(0)>>,
                                   "Object has unexpected keys: b")>>

====
